---- MODULE Spec2Model ----
(***************************************************************************)
(* Model of the loyverse_manager core:                                     *)
(*   - QuicketBot (src/src/bots/quicket.py): browser session controller    *)
(*     and the hide_event retry supervisor, with the two scripts that use  *)
(*     it inside a `with` block;                                           *)
(*   - AuditService.create_card_payment_audit (src/src/services/audit.py)  *)
(*     with its three payment source adapters.                             *)
(***************************************************************************)
EXTENDS Integers, Sequences, FiniteSets, TLC

\* ------------------------------------------------------------------ bounds
MaxHeaders == 2        \* accordion headers rendered on the event page
MaxProcs == 2          \* browser processes the host can run at once
MaxRetriesArg == 4     \* largest max_retries a direct caller passes
MaxDate == 3           \* calendar dates the payment sources report on
MaxTrans == 2          \* transactions the terminal gateway holds
MaxReceipts == 2       \* receipts the primary POS holds
MaxRuns == 2           \* reconciliation runs made one after the other
MaxBagIds == 2         \* distinct tokens generate_bag_id can return
MaxAssignments == 2    \* rows of cash_bag_assignments
MaxVerifications == 2  \* rows of cash_bag_verifications
MaxAudits == 2         \* rows of card_payment_audits a report is asked over
MaxTickets == 2        \* ticket ids the POS client reports
MaxEvents == 3         \* rows of open_tickets_history

\* ------------------------------------------------------- program constants
DefaultMaxRetries == 5     \* hide_event: max_retries = 5 when None
DefaultStartRetries == 3   \* start_browser(self, max_retries=3)
LaunchPause == 2           \* time.sleep(2) after a failed launch
RestartPause == 2          \* time.sleep(2) inside restart_browser
NumTerminals == 2          \* len(ADD_PAY_TERMINALS)
UtcOffsetHours == 2        \* timedelta(hours=2) added to trans_end_time

VARIABLES
    \* QuicketBot fields
    driver,        \* self._driver: "none" | "live" | "dead" (handle to a dead process)
    wait,          \* self._wait is set
    \* environment of the bot
    procs,         \* browser processes launched by the controller and still alive
    headers,       \* event page: headers[i] = header i's content has a row dated target_date
    hidden,        \* ticketing platform: the target date is hidden
    \* hide_event locals
    pc,            \* "idle" | "attempt" | "restart" | "sleep" | "exhausted"
    max_retries,
    attempt,
    last_error,    \* [attempt, kind], kind = "none" while last_error is None
    \* observation of the running / last call
    trace,         \* calls made by hide_event itself, in order
    actions,       \* UI actions of the attempt just made (cleared by the next step)
    toggled,       \* a hide or save control was clicked during this hide_event call
    hidden0,       \* value of hidden when hide_event was called
    ret,           \* result of the latest completed public operation
    \* scripts
    script,        \* "none" | "hide_quicket_event" | "add_inventory"
    spc,           \* position in the script
    stops,         \* stop_browser calls made by the script's with-block
    notified,      \* hide-failure notifications sent by the script
    exc,           \* exception in flight in the script ("none" if none)
    \* create_card_payment_audit
    apc,               \* "idle" | "loyverse" | "aronium" | "build" | "save" | "return" | "done"
    paycloud_payments, \* daily totals the terminal service returned
    loyverse_payments, \* daily card totals of the primary POS
    aronium_payments,  \* daily card totals of the secondary POS ledger
    audit_records,     \* rows built by the run
    db,                \* table card_payment_audits
    audit_ret,         \* what the run gave its caller
    fetch_failed,      \* sources whose fetch failed during the run
    \* repeated reconciliation runs
    world,             \* the source data, when it stays the same from run to run
    runs,              \* runs completed before the current one
    dirty,             \* a fetch or the database failed in a completed run
    \* cash bags
    assignments,       \* table cash_bag_assignments
    verifications,     \* table cash_bag_verifications
    cash_ret,          \* result of the latest cash bag operation
    \* open tickets
    current,       \* rows of open_tickets_current
    history,       \* rows of open_tickets_history, in insertion order
    reqs,          \* the web requests being served, one per worker
    \* audit service calls
    report,        \* result of the latest get_card_audit_report call
    shifts,        \* cash data the two POS sources hold for create_cash_bag_assignments
    batch_call     \* a CashBagAssignment.create_batch call between commit and re-read

botVars == <<driver, wait, procs, headers, hidden, pc, max_retries, attempt,
             last_error, trace, actions, toggled, hidden0, ret,
             script, spc, stops, notified, exc>>

auditVars == <<apc, paycloud_payments, loyverse_payments, aronium_payments,
               audit_records, db, audit_ret, fetch_failed>>

runVars == <<world, runs, dirty>>

cashVars == <<assignments, verifications, cash_ret>>

ticketVars == <<current, history, reqs>>
svcVars == <<report, shifts, batch_call>>
vars == <<botVars, auditVars, runVars, cashVars, ticketVars, svcVars>>

NoError == [attempt |-> 0, kind |-> "none"]
NoRet == [op |-> "none", outcome |-> "none", error |-> NoError, arg |-> 0,
          attempts |-> 0, sleeps |-> <<>>, launches |-> <<>>]

\* ------------------------------------------------------------ browser I/O
\* Outcomes of webdriver's quit(): it returns, or raises after the process
\* died, or raises and leaves the process running.
QuitOutcomes == {"ok", "raise_killed", "raise_alive"}

\* self._driver.quit() on the handle d with p live processes.
quit(d, p, q) ==
    IF d = "live"
    THEN [raised |-> q # "ok",
          driver |-> IF q = "raise_alive" THEN "live" ELSE "dead",
          procs  |-> IF q = "raise_alive" THEN p ELSE p - 1]
    ELSE [raised |-> q # "ok", driver |-> d, procs |-> p]

\* Launch outcomes the host allows: launches[i] is whether the i-th call of
\* webdriver.Chrome() succeeds.  The launches fail until the host recovers at
\* call k (never, for k = n + 1), and all fail when the host is out of processes.
LaunchChoices(n, p) ==
    {[i \in 1..n |-> i >= k] :
        k \in (IF p < MaxProcs THEN 1 ELSE n + 1)..(n + 1)}

\* quit() outcomes that matter for the handle d: no quit() without a driver.
QuitChoices(d) == IF d = "none" THEN {"ok"} ELSE QuitOutcomes

\* procs after the forced cleanup at the start of restart_browser.
ProcsAfterCleanup(d, p, q) == IF d # "none" THEN quit(d, p, q).procs ELSE p

\* Variant: the pause is taken after every failed launch, the last included,
\* and the error raised is the first one.
RECURSIVE start_browser_loop_pause_always(_, _, _, _)
start_browser_loop_pause_always(retries, R, launches, st) ==
    IF retries > 0
    THEN LET i == st.attempts + 1 IN
         IF launches[i]
         THEN [st EXCEPT !.driver = "live", !.wait = TRUE,
                         !.procs = @ + 1, !.attempts = i, !.outcome = "ok"]
         ELSE LET st1 == [st EXCEPT !.attempts = i,
                             !.sleeps = Append(@, LaunchPause),
                             !.error = IF @.kind = "none"
                                       THEN [attempt |-> i, kind |-> "launch_failed"]
                                       ELSE @]
              IN IF retries - 1 > 0
                 THEN start_browser_loop_pause_always(retries - 1, R, launches, st1)
                 ELSE [st1 EXCEPT !.outcome = "raised"]
    ELSE [st EXCEPT !.outcome = "ok"]

\* start_browser: the while loop, one iteration per call.
RECURSIVE start_browser_loop(_, _, _, _)
start_browser_loop(retries, R, launches, st) ==
    IF retries > 0
    THEN LET i == st.attempts + 1 IN
         IF launches[i]
         THEN [st EXCEPT !.driver = "live", !.wait = TRUE,
                         !.procs = @ + 1, !.attempts = i, !.outcome = "ok"]
         ELSE LET st1 == [st EXCEPT !.attempts = i,
                                    !.error = [attempt |-> i, kind |-> "launch_failed"]]
              IN IF retries - 1 > 0
                 THEN start_browser_loop(retries - 1, R, launches,
                          [st1 EXCEPT !.sleeps = Append(@, LaunchPause)])
                 ELSE [st1 EXCEPT !.outcome = "raised"]
    ELSE [st EXCEPT !.outcome = "ok"]

start_browser(d, w, p, R, launches) ==
    start_browser_loop(R, R, launches,
        [driver |-> d, wait |-> w, procs |-> p, attempts |-> 0,
         sleeps |-> <<>>, error |-> NoError, outcome |-> "none"])

\* stop_browser: quit the driver if there is one, then clear both handles.
stop_browser(d, w, p, q) ==
    IF d # "none"
    THEN LET r == quit(d, p, q) IN
         IF r.raised
         THEN [raised |-> TRUE, driver |-> r.driver, wait |-> w, procs |-> r.procs]
         ELSE [raised |-> FALSE, driver |-> "none", wait |-> FALSE, procs |-> r.procs]
    ELSE [raised |-> FALSE, driver |-> "none", wait |-> FALSE, procs |-> p]

\* restart_browser: forced cleanup (errors ignored), pause, start_browser().
restart_browser(d, w, p, q, launches) ==
    LET r == IF d # "none" THEN quit(d, p, q)
             ELSE [raised |-> FALSE, driver |-> d, procs |-> p]
        s == start_browser("none", FALSE, r.procs, DefaultStartRetries, launches)
    IN [s EXCEPT !.sleeps = <<RestartPause>> \o @]

\* --------------------------------------------------- the per-attempt steps
\* Faults the page or the network can raise during one attempt.  A fault
\* only shows if the attempt reaches the step it belongs to.
GlobalFaults == {"none", "get_login_error", "login_timeout",
                 "login_button_timeout", "navigate_error", "headers_timeout",
                 "icon_missing", "hide_click_error", "save_button_timeout",
                 "save_lost", "save_unconfirmed"}
HeaderFaults == {"expand", "no_id", "content_timeout", "bad_date"}
Faults(hs) ==
    {[kind |-> k, at |-> 0] : k \in GlobalFaults}
      \cup {[kind |-> k, at |-> i] : k \in HeaderFaults, i \in 1..Len(hs)}

Act(a, on, i) == <<a, on, i>>
Fail(s, e) == [s EXCEPT !.err = e]
Do(s, a) == [s EXCEPT !.acts = Append(@, a)]

\* The click actions of a UI action log.
Clicks(acts) == SelectSeq(acts, LAMBDA a : a[1] = "click")
ToggleClicks(acts) ==
    SelectSeq(acts, LAMBDA a : a[1] = "click" /\ a[2] \in {"hide", "save"})

\* _login
login(d, w, fault, cookies, s) ==
    IF d = "none" \/ ~w THEN Fail(s, "not_started")
    ELSE IF d = "dead" \/ fault.kind = "get_login_error"
    THEN Fail(s, "webdriver_error")
    ELSE LET s1 == Do(s, Act("get", "login", 0)) IN
         IF fault.kind = "login_timeout" THEN Fail(s1, "login_failed")
         ELSE LET s2 == Do(Do(s1, Act("send_keys", "email", 0)),
                           Act("send_keys", "password", 0))
                  s3 == IF cookies THEN Do(s2, Act("click", "cookies", 0)) ELSE s2
              IN IF fault.kind = "login_button_timeout"
                 THEN Fail(s3, "login_failed")
                 ELSE Do(s3, Act("click", "login", 0))

\* _navigate_to_event
navigate_to_event(fault, s) ==
    IF fault.kind = "navigate_error" THEN Fail(s, "webdriver_error")
    ELSE Do(s, Act("get", "event", 0))

\* Variant: after the click on SAVE the success message is not waited for.
click_save_button_no_confirmation(fault, s) ==
    IF fault.kind = "save_button_timeout" THEN Fail(s, "save_failed")
    ELSE LET s1 == Do(s, Act("click", "save", 0)) IN
         IF fault.kind = "save_lost" THEN s1
         ELSE [s1 EXCEPT !.hidden = TRUE]

\* _click_save_button
click_save_button(fault, s) ==
    IF fault.kind = "save_button_timeout" THEN Fail(s, "save_failed")
    ELSE LET s1 == Do(s, Act("click", "save", 0)) IN
         IF fault.kind = "save_lost" THEN Fail(s1, "save_failed")
         ELSE IF fault.kind = "save_unconfirmed"
         THEN Fail([s1 EXCEPT !.hidden = TRUE], "save_failed")
         ELSE [s1 EXCEPT !.hidden = TRUE]

\* Variant: the unhide control is not looked for, the hide control is clicked
\* whatever the row shows.
click_eye_icon_no_unhide_check(fault, s) ==
    IF fault.kind = "icon_missing"
    THEN [s |-> Fail(s, "icon_not_found"), clicked |-> FALSE]
    ELSE IF fault.kind = "hide_click_error"
    THEN [s |-> Fail(s, "webdriver_error"), clicked |-> FALSE]
    ELSE [s |-> Do(s, Act("click", "hide", 0)), clicked |-> TRUE]

\* _click_eye_icon: clicked = the hide control was clicked (returns True).
click_eye_icon(fault, s) ==
    IF fault.kind = "icon_missing"
    THEN [s |-> Fail(s, "icon_not_found"), clicked |-> FALSE]
    ELSE IF s.hidden
    THEN [s |-> s, clicked |-> FALSE]
    ELSE IF fault.kind = "hide_click_error"
    THEN [s |-> Fail(s, "webdriver_error"), clicked |-> FALSE]
    ELSE [s |-> Do(s, Act("click", "hide", 0)), clicked |-> TRUE]

\* _expand_header
expand_header(i, fault, s) ==
    IF fault = [kind |-> "expand", at |-> i]
    THEN Fail(s, "expand_failed")
    ELSE Do(s, Act("click", "header", i))

\* Variant: the `return` after the matched row is missing, the loop goes on
\* to the next header.
RECURSIVE hide_event_once_loop_no_return(_, _, _, _)
hide_event_once_loop_no_return(i, hs, fault, s) ==
    IF i > Len(hs) THEN Fail(s, "date_not_found")
    ELSE LET s1 == expand_header(i, fault, s) IN
         IF s1.err # "none" THEN s1
         ELSE IF fault = [kind |-> "no_id", at |-> i]
         THEN Fail(s1, "header_missing_id")
         ELSE IF fault = [kind |-> "content_timeout", at |-> i]
         THEN Fail(s1, "timeout")
         ELSE IF fault = [kind |-> "bad_date", at |-> i]
         THEN Fail(s1, "value_error")
         ELSE IF hs[i]
         THEN LET c == click_eye_icon(fault, s1)
                  s2 == IF c.s.err = "none" /\ c.clicked
                        THEN click_save_button(fault, c.s) ELSE c.s
              IN IF s2.err # "none" THEN s2
                 ELSE IF i = Len(hs) THEN s2
                 ELSE hide_event_once_loop_no_return(i + 1, hs, fault, s2)
         ELSE hide_event_once_loop_no_return(i + 1, hs, fault, s1)

\* _hide_event_once: the loop over the accordion headers, from header i.
RECURSIVE hide_event_once_loop(_, _, _, _)
hide_event_once_loop(i, hs, fault, s) ==
    IF i > Len(hs) THEN Fail(s, "date_not_found")
    ELSE LET s1 == expand_header(i, fault, s) IN
         IF s1.err # "none" THEN s1
         ELSE IF fault = [kind |-> "no_id", at |-> i]
         THEN Fail(s1, "header_missing_id")
         ELSE IF fault = [kind |-> "content_timeout", at |-> i]
         THEN Fail(s1, "timeout")
         ELSE IF fault = [kind |-> "bad_date", at |-> i]
         THEN Fail(s1, "value_error")
         ELSE IF hs[i]
         THEN LET c == click_eye_icon(fault, s1) IN
              IF c.s.err # "none" THEN c.s
              ELSE IF c.clicked THEN click_save_button(fault, c.s)
              ELSE c.s
         ELSE hide_event_once_loop(i + 1, hs, fault, s1)

hide_event_once(hs, fault, s) ==
    IF Len(hs) = 0 \/ fault.kind = "headers_timeout"
    THEN Fail(s, "timeout")
    ELSE hide_event_once_loop(1, hs, fault, s)

\* The try block of one hide_event iteration.
attempt_body(d, w, hs, h, fault, cookies) ==
    LET s0 == [err |-> "none", acts |-> <<>>, hidden |-> h]
        s1 == login(d, w, fault, cookies, s0)
    IN IF s1.err # "none" THEN s1
       ELSE LET s2 == navigate_to_event(fault, s1) IN
            IF s2.err # "none" THEN s2
            ELSE hide_event_once(hs, fault, s2)

\* --------------------------------------------------- hide_event loop control
\* Variant: the test `attempt <= max_retries` restarts after the last attempt too.
after_attempt_restart_last(ok, a, N) ==
    IF ok THEN "return"
    ELSE IF a <= N THEN "restart" ELSE "exhausted"

\* Variant: the `return` after a successful attempt is missing, so the loop
\* goes on to the next iteration.
after_attempt_no_return(ok, a, N) ==
    IF a < N THEN "restart"
    ELSE IF ok THEN "return" ELSE "exhausted"

\* What follows an attempt: "return" on success, "restart" when the failed
\* attempt is not the last, otherwise the loop ends.
after_attempt(ok, a, N) ==
    IF ok THEN "return"
    ELSE IF a < N THEN "restart" ELSE "exhausted"

\* Variant: exponential backoff, 2 ** attempt.
wait_time_exponential(a) == 2 ^ a

\* wait_time = 2 * attempt
wait_time(a) == 2 * a

\* Variant: a restart_browser that raises ends the retry loop.
after_restart_abort(raised) == IF raised THEN "exhausted" ELSE "sleep"

\* try: self.restart_browser() / except Exception: only logged; the sleep
\* follows whether it raised or not.
after_restart(raised) == "sleep"

\* for attempt in range(1, max_retries + 1): the position after iteration a.
loop_next(a, N) == IF a + 1 <= N THEN "attempt" ELSE "exhausted"

\* ------------------------------------------------------------------- Init
HeaderLists == UNION {[1..n -> BOOLEAN] : n \in 0..MaxHeaders}
Scripts == {"hide_quicket_event", "add_inventory"}

\* max_retries as passed: <<>> is None, <<n>> is the integer n.
RetriesArgs == {<<>>} \cup {<<n>> : n \in (-1)..MaxRetriesArg}
StartRetriesArgs == (-1)..MaxRetriesArg

BotInit ==
    /\ driver = "none" /\ wait = FALSE /\ procs = 0
    /\ headers \in HeaderLists
    /\ hidden \in BOOLEAN
    /\ pc = "idle" /\ max_retries = 0 /\ attempt = 0 /\ last_error = NoError
    /\ trace = <<>> /\ actions = <<>> /\ toggled = FALSE /\ hidden0 = hidden
    /\ ret = NoRet
    /\ script = "none" /\ spc = "none"
    /\ stops = 0 /\ notified = 0 /\ exc = "none"

\* ------------------------------------------- direct calls on a QuicketBot
Direct == script = "none" /\ pc = "idle"

ResetCall ==
    /\ max_retries' = 0 /\ attempt' = 0 /\ last_error' = NoError
    /\ trace' = <<>> /\ actions' = <<>> /\ toggled' = FALSE /\ hidden0' = hidden

StartBrowser(R, launches) ==
    /\ Direct
    /\ \E r \in {start_browser(driver, wait, procs, R, launches)} :
       /\ driver' = r.driver /\ wait' = r.wait /\ procs' = r.procs
       /\ ret' = [op |-> "start_browser", outcome |-> r.outcome,
                  error |-> r.error, arg |-> R, attempts |-> r.attempts,
                  sleeps |-> r.sleeps, launches |-> launches]
    /\ ResetCall
    /\ UNCHANGED <<headers, hidden, pc, script, spc, stops, notified, exc,
                   auditVars, runVars, cashVars,
                   ticketVars, svcVars>>

StopBrowser(q) ==
    /\ Direct
    /\ \E r \in {stop_browser(driver, wait, procs, q)} :
       /\ driver' = r.driver /\ wait' = r.wait /\ procs' = r.procs
       /\ ret' = [NoRet EXCEPT !.op = "stop_browser",
                     !.outcome = IF r.raised THEN "raised" ELSE "ok",
                     !.error = IF r.raised
                               THEN [attempt |-> 0, kind |-> "quit_failed"]
                               ELSE NoError]
    /\ ResetCall
    /\ UNCHANGED <<headers, hidden, pc, script, spc, stops, notified, exc,
                   auditVars, runVars, cashVars,
                   ticketVars, svcVars>>

RestartBrowser(q, launches) ==
    /\ Direct
    /\ \E r \in {restart_browser(driver, wait, procs, q, launches)} :
       /\ driver' = r.driver /\ wait' = r.wait /\ procs' = r.procs
       /\ ret' = [op |-> "restart_browser", outcome |-> r.outcome,
                  error |-> r.error, arg |-> DefaultStartRetries,
                  attempts |-> r.attempts, sleeps |-> r.sleeps,
                  launches |-> launches]
    /\ ResetCall
    /\ UNCHANGED <<headers, hidden, pc, script, spc, stops, notified, exc,
                   auditVars, runVars, cashVars,
                   ticketVars, svcVars>>

\* ---------------------------------------------------------- hide_event
MaxRetriesOf(arg) == IF arg = <<>> THEN DefaultMaxRetries ELSE arg[1]

\* Entry of hide_event: defaults, last_error = None, first loop test.
EnterHideEvent(arg) ==
    /\ max_retries' = MaxRetriesOf(arg)
    /\ attempt' = 1
    /\ last_error' = NoError
    /\ trace' = <<>> /\ actions' = <<>> /\ toggled' = FALSE /\ hidden0' = hidden
    /\ ret' = NoRet
    /\ pc' = loop_next(0, MaxRetriesOf(arg))

HideEventCall(arg) ==
    /\ Direct
    /\ EnterHideEvent(arg)
    /\ UNCHANGED <<driver, wait, procs, headers, hidden,
                   script, spc, stops, notified, exc,
                   auditVars, runVars, cashVars,
                   ticketVars, svcVars>>

\* One iteration's try block and the first half of its except block.
HideAttempt(fault, cookies) ==
    /\ pc = "attempt"
    /\ \E r \in {attempt_body(driver, wait, headers, hidden, fault, cookies)} :
       LET ok == r.err = "none"
           nxt == after_attempt(ok, attempt, max_retries)
       IN /\ actions' = r.acts
          /\ hidden' = r.hidden
          /\ toggled' = (toggled \/ Len(ToggleClicks(r.acts)) > 0)
          /\ trace' = Append(trace, [ev |-> "attempt", n |-> attempt, ok |-> ok])
          /\ last_error' = IF ok THEN last_error
                           ELSE [attempt |-> attempt, kind |-> r.err]
          /\ pc' = IF nxt = "return" THEN "idle" ELSE nxt
          /\ ret' = IF nxt = "return"
                    THEN [NoRet EXCEPT !.op = "hide_event", !.outcome = "ok",
                                       !.arg = max_retries]
                    ELSE ret
    /\ UNCHANGED <<driver, wait, procs, headers, max_retries, attempt, hidden0,
                   script, spc, stops, notified, exc,
                   auditVars, runVars, cashVars,
                   ticketVars, svcVars>>

\* self.restart_browser() inside try/except: a failure is only logged.
HideRestart(q, launches) ==
    /\ pc = "restart"
    /\ \E r \in {restart_browser(driver, wait, procs, q, launches)} :
       /\ driver' = r.driver /\ wait' = r.wait /\ procs' = r.procs
       /\ pc' = after_restart(r.outcome = "raised")
    /\ trace' = Append(trace, [ev |-> "restart", n |-> attempt, ok |-> TRUE])
    /\ actions' = <<>>
    /\ UNCHANGED <<headers, hidden, max_retries, attempt, last_error,
                   toggled, hidden0, ret, script, spc, stops, notified, exc,
                   auditVars, runVars, cashVars,
                   ticketVars, svcVars>>

\* time.sleep(wait_time), then the next iteration of the for loop.
HideSleep ==
    /\ pc = "sleep"
    /\ trace' = Append(trace, [ev |-> "sleep", n |-> wait_time(attempt), ok |-> TRUE])
    /\ attempt' = attempt + 1
    /\ pc' = loop_next(attempt, max_retries)
    /\ UNCHANGED <<driver, wait, procs, headers, hidden, max_retries, last_error,
                   actions, toggled, hidden0, ret, script, spc, stops, notified, exc,
                   auditVars, runVars, cashVars,
                   ticketVars, svcVars>>

\* After the loop: raise RuntimeError(...) from last_error.
HideRaise ==
    /\ pc = "exhausted"
    /\ ret' = [NoRet EXCEPT !.op = "hide_event", !.outcome = "raised",
                            !.error = last_error, !.arg = max_retries]
    /\ pc' = "idle"
    /\ UNCHANGED <<driver, wait, procs, headers, hidden, max_retries, attempt,
                   last_error, trace, actions, toggled, hidden0,
                   script, spc, stops, notified, exc,
                   auditVars, runVars, cashVars,
                   ticketVars, svcVars>>

\* ------------------------------------------------ the scripts' with-block
\* QuicketBot.__enter__: start_browser() with the default retries.
enter_cm(d, w, p, launches) == start_browser(d, w, p, DefaultStartRetries, launches)

\* Variant: __exit__ releases nothing.
exit_cm_no_stop(d, w, p, q) ==
    [stop_calls |-> 0,
     st |-> [raised |-> FALSE, driver |-> d, wait |-> w, procs |-> p]]

\* QuicketBot.__exit__: stop_browser(); it returns None, so an exception of
\* the body is re-raised unless stop_browser itself raises.
exit_cm(d, w, p, q) ==
    [stop_calls |-> 1, st |-> stop_browser(d, w, p, q)]

\* `with QuicketBot(...) as quicket_bot:` -- __enter__
ScriptEnter(launches) ==
    /\ script # "none" /\ spc = "start"
    /\ \E r \in {enter_cm(driver, wait, procs, launches)} :
       /\ driver' = r.driver /\ wait' = r.wait /\ procs' = r.procs
       /\ spc' = IF r.outcome = "ok" THEN "entered" ELSE "handler"
       /\ exc' = IF r.outcome = "ok" THEN "none" ELSE "launch_failed"
    /\ UNCHANGED <<headers, hidden, pc, max_retries, attempt, last_error, trace,
                   actions, toggled, hidden0, ret, script, stops, notified,
                   auditVars, runVars, cashVars,
                   ticketVars, svcVars>>

\* quicket_bot.hide_event(event_id, TODAY)
ScriptCallHide ==
    /\ script # "none" /\ spc = "entered" /\ pc = "idle"
    /\ EnterHideEvent(<<>>)
    /\ spc' = "body"
    /\ UNCHANGED <<driver, wait, procs, headers, hidden,
                   script, stops, notified, exc,
                   auditVars, runVars, cashVars,
                   ticketVars, svcVars>>

\* hide_event has returned or raised: __exit__ runs, then control leaves
\* the with statement.
ScriptExit(q) ==
    /\ script # "none" /\ spc = "body" /\ pc = "idle"
    /\ \E x \in {exit_cm(driver, wait, procs, q)} :
       LET r == x.st
       IN /\ driver' = r.driver /\ wait' = r.wait /\ procs' = r.procs
          /\ stops' = stops + x.stop_calls
          /\ exc' = IF r.raised THEN "quit_failed"
                    ELSE IF ret.outcome = "raised" THEN "hide_failed"
                    ELSE "none"
          /\ spc' = IF r.raised \/ ret.outcome = "raised"
                    THEN "handler" ELSE "after_with"
    /\ UNCHANGED <<headers, hidden, pc, max_retries, attempt, last_error, trace,
                   actions, toggled, hidden0, ret, script, notified,
                   auditVars, runVars, cashVars,
                   ticketVars, svcVars>>

\* except Exception as hide_error: log, notify; hide_quicket_event re-raises,
\* add_inventory continues.
ScriptHandler ==
    /\ script # "none" /\ spc = "handler"
    /\ notified' = notified + 1
    /\ spc' = IF script = "hide_quicket_event" THEN "failed" ELSE "guest_list"
    /\ exc' = IF script = "hide_quicket_event" THEN exc ELSE "none"
    /\ UNCHANGED <<driver, wait, procs, headers, hidden, pc, max_retries, attempt,
                   last_error, trace, actions, toggled, hidden0, ret,
                   script, stops,
                   auditVars, runVars, cashVars,
                   ticketVars, svcVars>>

\* The statements after the with statement when nothing was raised.
ScriptAfterWith ==
    /\ script # "none" /\ spc = "after_with"
    /\ spc' = IF script = "hide_quicket_event" THEN "done" ELSE "guest_list"
    /\ UNCHANGED <<driver, wait, procs, headers, hidden, pc, max_retries, attempt,
                   last_error, trace, actions, toggled, hidden0, ret,
                   script, stops, notified, exc,
                   auditVars, runVars, cashVars,
                   ticketVars, svcVars>>

\* add_inventory after the hide block: the guest-list fetch, the gazebo
\* inventory update, the item creation, in this order; a step that raises
\* ends the run through the outer handler.
ProcessSteps == {"guest_list", "gazebo", "items"}
process_next(step, ok) ==
    IF ~ok THEN "failed"
    ELSE IF step = "guest_list" THEN "gazebo"
    ELSE IF step = "gazebo" THEN "items"
    ELSE "done"

ScriptProcess(ok) ==
    /\ script = "add_inventory" /\ spc \in ProcessSteps
    /\ spc' = process_next(spc, ok)
    /\ exc' = IF ok THEN exc ELSE "process_failed"
    /\ UNCHANGED <<driver, wait, procs, headers, hidden, pc, max_retries, attempt,
                   last_error, trace, actions, toggled, hidden0, ret,
                   script, stops, notified,
                   auditVars, runVars, cashVars,
                   ticketVars, svcVars>>

\* main(): sys.exit(1) when the script function raised.
exit_status(raised) == IF raised THEN 1 ELSE 0

\* ===================================================== card payment audit
Dates == 1..MaxDate
Terminals == 1..NumTerminals
CardType == "NONINTEGRATEDCARD"
PaymentTypes == {CardType, "CASH"}
GatewayHours == {12, 23}       \* hour of trans_end_time in the gateway's clock
TerminalAmounts == {100}
ReceiptAmounts == {40}
LedgerAmounts == {30}

\* What the terminal gateway holds: transactions in the order it lists them.
\* A page of the gateway's answer carries one transaction.
GatewayTransactions ==
    [terminal : Terminals, day : Dates, hour : GatewayHours,
     amount : TerminalAmounts]
Gateways == UNION {[1..n -> GatewayTransactions] : n \in 0..MaxTrans}

PagesOf(gateway, terminal_sn) ==
    LET OfTerminal(t) == t.terminal = terminal_sn
    IN SelectSeq(gateway, OfTerminal)

\* fail_at[k]: the page request of terminal k that raises (0: none does).
PageFaults(gateway) ==
    {f \in [Terminals -> 0..(Len(gateway) + 1)] :
        \A k \in Terminals : f[k] <= Len(PagesOf(gateway, k)) + 1}

\* trans_end_time + timedelta(hours=2)
AdjustTime(tran) ==
    IF tran.hour + UtcOffsetHours >= 24
    THEN [tran EXCEPT !.day = @ + 1, !.hour = @ + UtcOffsetHours - 24]
    ELSE [tran EXCEPT !.hour = @ + UtcOffsetHours]

\* The while loop of get_terminal_transactions: an empty page ends it, and so
\* does any exception, which is printed and not raised again.
RECURSIVE get_terminal_transactions_loop(_, _, _, _)
get_terminal_transactions_loop(pages, page_num, fail_at, all_transactions) ==
    IF page_num = fail_at
    THEN [transactions |-> all_transactions, failed |-> TRUE]
    ELSE IF page_num > Len(pages)
    THEN [transactions |-> all_transactions, failed |-> FALSE]
    ELSE get_terminal_transactions_loop(
             pages, page_num + 1, fail_at,
             Append(all_transactions, AdjustTime(pages[page_num])))

get_terminal_transactions(pages, fail_at) ==
    get_terminal_transactions_loop(pages, 1, fail_at, <<>>)

RECURSIVE get_transactions_loop(_, _, _, _)
get_transactions_loop(gateway, fail_at, k, acc) ==
    IF k > NumTerminals THEN acc
    ELSE LET r == get_terminal_transactions(PagesOf(gateway, k), fail_at[k])
         IN get_transactions_loop(
                gateway, fail_at, k + 1,
                [transactions |-> acc.transactions \o r.transactions,
                 failed |-> acc.failed \/ r.failed])

get_transactions(gateway, fail_at) ==
    get_transactions_loop(gateway, fail_at, 1,
                          [transactions |-> <<>>, failed |-> FALSE])

\* dict.get(key, default)
Get(dict, key, default) == IF key \in DOMAIN dict THEN dict[key] ELSE default

\* daily_totals[date] = daily_totals.get(date, 0) + amount
AddTo(daily_totals, date, amount) ==
    [d \in DOMAIN daily_totals \cup {date} |->
        IF d = date THEN Get(daily_totals, date, 0) + amount
        ELSE daily_totals[d]]

\* [{"date": date, "amount": amount} for date, amount in daily_totals.items()]
Items(daily_totals) ==
    {[date |-> d, amount |-> daily_totals[d]] : d \in DOMAIN daily_totals}

RECURSIVE paycloud_daily_totals(_, _, _)
paycloud_daily_totals(transactions, i, daily_totals) ==
    IF i > Len(transactions) THEN daily_totals
    ELSE paycloud_daily_totals(
             transactions, i + 1,
             AddTo(daily_totals, transactions[i].day, transactions[i].amount))

get_daily_card_payments(gateway, fail_at) ==
    LET r == get_transactions(gateway, fail_at)
    IN [payments |-> Items(paycloud_daily_totals(r.transactions, 1, <<>>)),
        failed |-> r.failed]

\* Receipts of the primary POS: receipt_date and the payments of the receipt.
Payments == [type : PaymentTypes, money_amount : ReceiptAmounts]
Receipts == [date : Dates, payments : {<<p>> : p \in Payments}]
ReceiptLists == UNION {[1..n -> Receipts] : n \in 0..MaxReceipts}

RECURSIVE receipt_card_totals(_, _, _, _)
receipt_card_totals(date, payments, j, daily_totals) ==
    IF j > Len(payments) THEN daily_totals
    ELSE receipt_card_totals(
             date, payments, j + 1,
             IF payments[j].type = CardType
             THEN AddTo(daily_totals, date, payments[j].money_amount)
             ELSE daily_totals)

RECURSIVE loyverse_daily_totals(_, _, _)
loyverse_daily_totals(receipts, i, daily_totals) ==
    IF i > Len(receipts) THEN daily_totals
    ELSE loyverse_daily_totals(
             receipts, i + 1,
             receipt_card_totals(receipts[i].date, receipts[i].payments, 1,
                                 daily_totals))

loyverse_get_card_payments(receipts) ==
    Items(loyverse_daily_totals(receipts, 1, <<>>))

\* The secondary POS ledger: the rows of the card payment query, one per date.
Ledgers == {{[date |-> d, amount |-> a] : d \in S} :
               S \in SUBSET Dates, a \in LedgerAmounts}
AroniumFaults == {"none", "connect_error", "query_error"}

\* sqlite3.connect raises outside the try block; an sqlite3.Error of the
\* query is printed and answered with [].
aronium_get_card_payments(ledger, fault) ==
    IF fault = "connect_error"
    THEN [raised |-> TRUE, payments |-> {}, failed |-> TRUE]
    ELSE IF fault = "query_error"
    THEN [raised |-> FALSE, payments |-> {}, failed |-> TRUE]
    ELSE [raised |-> FALSE, payments |-> ledger, failed |-> FALSE]

\* {p["date"]: p["amount"] for p in payments}
DictOf(payments) ==
    [d \in {p.date : p \in payments} |->
        (CHOOSE p \in payments : p.date = d).amount]

all_dates_without_aronium(paycloud_dict, loyverse_dict, aronium_dict) ==
    DOMAIN paycloud_dict \cup DOMAIN loyverse_dict

all_dates(paycloud_dict, loyverse_dict, aronium_dict) ==
    DOMAIN paycloud_dict \cup DOMAIN loyverse_dict \cup DOMAIN aronium_dict

Min(S) == CHOOSE m \in S : \A x \in S : m <= x
Max(S) == CHOOSE m \in S : \A x \in S : m >= x

RECURSIVE sorted(_)
sorted(S) == IF S = {} THEN <<>> ELSE <<Min(S)>> \o sorted(S \ {Min(S)})

audit_record_variance_reversed(date, paycloud_dict, loyverse_dict, aronium_dict) ==
    LET paycloud_amt == Get(paycloud_dict, date, 0)
        loyverse_amt == Get(loyverse_dict, date, 0)
        aronium_amt == Get(aronium_dict, date, 0)
        pos_total == loyverse_amt + aronium_amt
        variance == pos_total - paycloud_amt
    IN [audit_date |-> date, paycloud_amount |-> paycloud_amt,
        loyverse_amount |-> loyverse_amt, aronium_amount |-> aronium_amt,
        pos_total |-> pos_total, variance |-> variance]

\* One iteration of the loop over sorted(all_dates).
audit_record(date, paycloud_dict, loyverse_dict, aronium_dict) ==
    LET paycloud_amt == Get(paycloud_dict, date, 0)
        loyverse_amt == Get(loyverse_dict, date, 0)
        aronium_amt == Get(aronium_dict, date, 0)
        pos_total == loyverse_amt + aronium_amt
        variance == paycloud_amt - pos_total
    IN [audit_date |-> date, paycloud_amount |-> paycloud_amt,
        loyverse_amount |-> loyverse_amt, aronium_amount |-> aronium_amt,
        pos_total |-> pos_total, variance |-> variance]

RECURSIVE build_records_loop(_, _, _, _, _, _)
build_records_loop(dates, i, paycloud_dict, loyverse_dict, aronium_dict, records) ==
    IF i > Len(dates) THEN records
    ELSE build_records_loop(
             dates, i + 1, paycloud_dict, loyverse_dict, aronium_dict,
             Append(records, audit_record(dates[i], paycloud_dict,
                                          loyverse_dict, aronium_dict)))

build_audit_records(paycloud, loyverse, aronium) ==
    LET paycloud_dict == DictOf(paycloud)
        loyverse_dict == DictOf(loyverse)
        aronium_dict == DictOf(aronium)
    IN build_records_loop(
           sorted(all_dates(paycloud_dict, loyverse_dict, aronium_dict)), 1,
           paycloud_dict, loyverse_dict, aronium_dict, <<>>)

RECURSIVE create_batch_skip_existing_dates(_, _, _)
create_batch_skip_existing_dates(table, records, i) ==
    IF i > Len(records) THEN table
    ELSE create_batch_skip_existing_dates(
             IF \E j \in DOMAIN table :
                   table[j].row.audit_date = records[i].audit_date
             THEN table
             ELSE Append(table, [id |-> Len(table) + 1, row |-> records[i]]),
             records, i + 1)

\* card_payment_audits: INSERT of the whole batch, ids in insertion order.
RECURSIVE create_batch(_, _, _)
create_batch(table, records, i) ==
    IF i > Len(records) THEN table
    ELSE create_batch(
             Append(table, [id |-> Len(table) + 1, row |-> records[i]]),
             records, i + 1)

\* ORDER BY audit_date DESC; rows of one date keep their insertion order.
RECURSIVE order_by_date_desc(_)
order_by_date_desc(rows) ==
    IF rows = <<>> THEN <<>>
    ELSE LET top == Max({rows[i].row.audit_date : i \in DOMAIN rows})
             IsTop(r) == r.row.audit_date = top
             NotTop(r) == r.row.audit_date # top
         IN SelectSeq(rows, IsTop) \o order_by_date_desc(SelectSeq(rows, NotTop))

get_by_date_range(table, start_date, end_date) ==
    LET Between(r) == start_date <= r.row.audit_date
                      /\ r.row.audit_date <= end_date
    IN order_by_date_desc(SelectSeq(table, Between))

\* start_date / end_date as passed: 0 is None.
RangeArgs == [start_date : {0, 1}, end_date : {0, MaxDate}]
DbFaults == {"none", "connect_error", "insert_error"}
QueryFaults == {"none", "query_error"}
NoAuditRet == [outcome |-> "none", error |-> "none", records |-> <<>>,
               range |-> [start_date |-> 0, end_date |-> 0]]

\* What a fetch can find at its source: anything, or the data of the world
\* when that is fixed.
GatewayChoices == IF world.fixed THEN {world.gateway} ELSE Gateways
ReceiptChoices == IF world.fixed THEN {world.receipts} ELSE ReceiptLists
LedgerChoices == IF world.fixed THEN {world.ledger} ELSE Ledgers

\* ------------------------------------- create_card_payment_audit, by step
\* paycloud_payments = self.paycloud_service.get_daily_card_payments()
FetchPaycloud ==
    /\ apc = "idle"
    /\ \E gateway \in GatewayChoices : \E fail_at \in PageFaults(gateway) :
       \E r \in {get_daily_card_payments(gateway, fail_at)} :
       /\ paycloud_payments' = r.payments
       /\ fetch_failed' = IF r.failed THEN fetch_failed \cup {"paycloud"}
                          ELSE fetch_failed
    /\ apc' = "loyverse"
    /\ UNCHANGED <<loyverse_payments, aronium_payments, audit_records, db,
                   audit_ret, runVars, cashVars, botVars,
                   ticketVars, svcVars>>

\* loyverse_receipts = get_receipts(); loyverse_payments = get_card_payments(...)
\* An error of the receipts request is raised to the caller.
FetchLoyverse ==
    /\ apc = "loyverse"
    /\ \E receipts \in ReceiptChoices, fails \in BOOLEAN :
       /\ loyverse_payments' = IF fails THEN loyverse_payments
                               ELSE loyverse_get_card_payments(receipts)
       /\ fetch_failed' = IF fails THEN fetch_failed \cup {"loyverse"}
                          ELSE fetch_failed
       /\ apc' = IF fails THEN "done" ELSE "aronium"
       /\ audit_ret' = IF fails
                       THEN [NoAuditRet EXCEPT !.outcome = "raised",
                                               !.error = "loyverse_error"]
                       ELSE audit_ret
    /\ UNCHANGED <<paycloud_payments, aronium_payments, audit_records, db,
                   runVars, cashVars, botVars,
                   ticketVars, svcVars>>

\* aronium_payments = self.aronium_repository.get_card_payments()
FetchAronium ==
    /\ apc = "aronium"
    /\ \E ledger \in LedgerChoices, fault \in AroniumFaults :
       \E r \in {aronium_get_card_payments(ledger, fault)} :
       /\ aronium_payments' = IF r.raised THEN aronium_payments ELSE r.payments
       /\ fetch_failed' = IF r.failed THEN fetch_failed \cup {"aronium"}
                          ELSE fetch_failed
       /\ apc' = IF r.raised THEN "done" ELSE "build"
       /\ audit_ret' = IF r.raised
                       THEN [NoAuditRet EXCEPT !.outcome = "raised",
                                               !.error = "aronium_error"]
                       ELSE audit_ret
    /\ UNCHANGED <<paycloud_payments, loyverse_payments, audit_records, db,
                   runVars, cashVars, botVars,
                   ticketVars, svcVars>>

\* The three lookups, all_dates and the loop that builds audit_records.
BuildRecords ==
    /\ apc = "build"
    /\ audit_records' = build_audit_records(paycloud_payments,
                                            loyverse_payments, aronium_payments)
    /\ apc' = "save"
    /\ UNCHANGED <<paycloud_payments, loyverse_payments, aronium_payments, db,
                   audit_ret, fetch_failed, runVars, cashVars, botVars,
                   ticketVars, svcVars>>

\* if audit_records: CardPaymentAudit.create_batch(audit_records)
\* A failed batch leaves the table as it was (nothing is committed) and the
\* exception reaches the caller.
SaveRecords ==
    /\ apc = "save"
    /\ \E fault \in (IF audit_records = <<>> THEN {"none"} ELSE DbFaults) :
       /\ db' = IF audit_records # <<>> /\ fault = "none"
                THEN create_batch(db, audit_records, 1) ELSE db
       /\ apc' = IF fault = "none" THEN "return" ELSE "done"
       /\ audit_ret' = IF fault = "none" THEN audit_ret
                       ELSE [NoAuditRet EXCEPT !.outcome = "raised",
                                               !.error = fault]
    /\ UNCHANGED <<paycloud_payments, loyverse_payments, aronium_payments,
                   audit_records, fetch_failed, runVars, cashVars, botVars,
                   ticketVars, svcVars>>

\* The query the return statement makes, <<>> when it makes none.
return_query(range, records) ==
    IF range.start_date # 0 /\ range.end_date # 0
    THEN <<range.start_date, range.end_date>>
    ELSE IF records # <<>>
    THEN <<Min({records[i].audit_date : i \in DOMAIN records}),
           Max({records[i].audit_date : i \in DOMAIN records})>>
    ELSE <<>>

ReturnRecords ==
    /\ apc = "return"
    /\ \E range \in RangeArgs, fault \in QueryFaults :
       \E qry \in {return_query(range, audit_records)} :
       audit_ret' =
          IF qry # <<>> /\ fault # "none"
          THEN [NoAuditRet EXCEPT !.outcome = "raised", !.error = fault,
                                  !.range = range]
          ELSE [NoAuditRet EXCEPT
                   !.outcome = "returned", !.range = range,
                   !.records = IF qry = <<>> THEN <<>>
                               ELSE get_by_date_range(db, qry[1], qry[2])]
    /\ apc' = "done"
    /\ UNCHANGED <<paycloud_payments, loyverse_payments, aronium_payments,
                   audit_records, db, fetch_failed, runVars, cashVars, botVars,
                   ticketVars, svcVars>>


AuditIdle ==
    /\ apc = "idle"
    /\ paycloud_payments = {} /\ loyverse_payments = {} /\ aronium_payments = {}
    /\ audit_records = <<>> /\ db = <<>>
    /\ audit_ret = NoAuditRet /\ fetch_failed = {}

\* ==================================================== card audit report
\* Tables of card_payment_audits a report can be asked over.  Amounts are
\* in cents, so the threshold `v > 0.01` is `v > 1`; a variance of v is
\* stored as a terminal total of v (or a POS total of -v) against nothing.
ReportTables ==
    LET Row(d, v) ==
            [audit_date |-> d,
             paycloud_amount |-> IF v >= 0 THEN v ELSE 0,
             loyverse_amount |-> IF v >= 0 THEN 0 ELSE 0 - v,
             aronium_amount |-> 0,
             pos_total |-> IF v >= 0 THEN 0 ELSE 0 - v,
             variance |-> v]
        Rows == {Row(d, v) : d \in Dates, v \in {0, 1, 0 - 2, 30}}
    IN UNION {{create_batch(<<>>, records, 1) : records \in [1..n -> Rows]} :
                 n \in 0..MaxAudits}

\* sum(variances)
RECURSIVE SumSeq(_)
SumSeq(s) == IF s = <<>> THEN 0 ELSE s[1] + SumSeq(Tail(s))

\* AuditService.get_card_audit_report: the dict it returns; start_date and
\* end_date are given as dates (the defaults are the first and the last
\* date).  average_variance is the pair sum / count.
get_card_audit_report(table, start_date, end_date) ==
    LET audits == get_by_date_range(table, start_date, end_date)
        variances == [i \in DOMAIN audits |->
                         IF audits[i].row.variance < 0
                         THEN 0 - audits[i].row.variance
                         ELSE audits[i].row.variance]
    IN IF audits = <<>>
       THEN [summary |-> [total_days |-> 0, days_with_variance |-> 0,
                          total_variance |-> 0, largest_variance |-> 0],
             records |-> <<>>]
       ELSE [summary |->
                [total_days |-> Len(audits),
                 days_with_variance |->
                     Len(SelectSeq(variances, LAMBDA v : v > 1)),
                 total_variance |-> SumSeq(variances),
                 largest_variance |->
                     Max({variances[i] : i \in DOMAIN variances}),
                 average_variance |->
                     [sum |-> SumSeq(variances), count |-> Len(variances)]],
             records |-> audits]

GetCardAuditReport(start_date, end_date) ==
    /\ report' = [called |-> TRUE, start_date |-> start_date,
                  end_date |-> end_date,
                  result |-> get_card_audit_report(db, start_date, end_date)]
    /\ UNCHANGED <<apc, paycloud_payments, loyverse_payments, aronium_payments,
                   audit_records, db, audit_ret, fetch_failed, shifts,
                   batch_call, ticketVars, cashVars, runVars, botVars>>

\* ================================================================ cash bags
BagIds == 1..MaxBagIds                 \* tokens generate_bag_id can draw
ExpectedAmounts == {500, 300}
CountedAmounts == {480}
AssignmentInputs == [expected_amount : ExpectedAmounts]

\* The schema of cash_bag_assignments and cash_bag_verifications is not among
\* the sources.  The tables carry no unique key on bag_id: the uniqueness of
\* bag ids rests on the improbability of a collision, and nothing but
\* application logic limits the verifications of a bag.
UniqueKeyConflict(table, bag_id) == FALSE

\* INSERT INTO cash_bag_assignments, id by auto-increment.
insert_assignment(table, bag_id, a) ==
    Append(table, [id |-> Len(table) + 1, bag_id |-> bag_id] @@ a)

\* CashBagAssignment.create: generate_bag_id(), INSERT, get_by_id(lastrowid).
assignment_create(table, bag_id, a) ==
    IF UniqueKeyConflict(table, bag_id)
    THEN [raised |-> TRUE, table |-> table, ids |-> <<>>]
    ELSE [raised |-> FALSE, table |-> insert_assignment(table, bag_id, a),
          ids |-> <<Len(table) + 1>>]

\* executemany over the (generate_bag_id(), ...) tuples of the batch.
RECURSIVE insert_assignments(_, _, _, _)
insert_assignments(table, bag_ids, batch, i) ==
    IF i > Len(batch) THEN table
    ELSE insert_assignments(insert_assignment(table, bag_ids[i], batch[i]),
                            bag_ids, batch, i + 1)

\* SELECT * ... ORDER BY id DESC LIMIT n, reversed.
last_ids(table, n) ==
    [k \in 1..(IF n < Len(table) THEN n ELSE Len(table)) |->
        table[Len(table) - (IF n < Len(table) THEN n ELSE Len(table)) + k].id]

assignment_create_batch(table, bag_ids, batch) ==
    IF \E i \in DOMAIN batch : UniqueKeyConflict(table, bag_ids[i])
    THEN [raised |-> TRUE, table |-> table, ids |-> <<>>]
    ELSE LET t == insert_assignments(table, bag_ids, batch, 1)
         IN [raised |-> FALSE, table |-> t, ids |-> last_ids(t, Len(batch))]

\* The rows SELECT * FROM cash_bag_assignments WHERE bag_id = %s matches;
\* fetchone() gives one of them, 0 standing for None.
get_by_bag_id(table, bag_id) ==
    IF \E i \in DOMAIN table : table[i].bag_id = bag_id
    THEN {i \in DOMAIN table : table[i].bag_id = bag_id}
    ELSE {0}

verification_variance_reversed(counted_amount, expected_amount) ==
    expected_amount - counted_amount

\* variance = counted_amount - assignment.expected_amount
verification_variance(counted_amount, expected_amount) ==
    counted_amount - expected_amount

verification_create_insert_unknown(atable, vtable, bag_id, counted_amount, i) ==
    [raised |-> FALSE, error |-> "none",
     table |-> Append(vtable,
                  [id |-> Len(vtable) + 1, bag_id |-> bag_id,
                   counted_amount |-> counted_amount,
                   variance |-> verification_variance(
                                    counted_amount,
                                    IF i = 0 THEN 0
                                    ELSE atable[i].expected_amount)])]

\* CashBagVerification.create with the assignment row i that get_by_bag_id
\* returned (0: none).
verification_create(atable, vtable, bag_id, counted_amount, i) ==
    IF i = 0
    THEN [raised |-> TRUE, error |-> "not_found", table |-> vtable]
    ELSE IF UniqueKeyConflict(vtable, bag_id)
    THEN [raised |-> TRUE, error |-> "integrity_error", table |-> vtable]
    ELSE [raised |-> FALSE, error |-> "none",
          table |-> Append(vtable,
                       [id |-> Len(vtable) + 1, bag_id |-> bag_id,
                        counted_amount |-> counted_amount,
                        variance |-> verification_variance(
                                         counted_amount,
                                         atable[i].expected_amount)])]

Batches(n) == UNION {[1..k -> AssignmentInputs] : k \in 1..n}

\* CashBagAssignment.create(...)
AssignmentCreate ==
    /\ Len(assignments) < MaxAssignments
    /\ \E bag_id \in BagIds, a \in AssignmentInputs :
       \E r \in {assignment_create(assignments, bag_id, a)} :
       /\ assignments' = r.table
       /\ cash_ret' = [op |-> "create",
                       outcome |-> IF r.raised THEN "raised" ELSE "ok",
                       error |-> IF r.raised THEN "integrity_error" ELSE "none",
                       arg |-> 0, ids |-> r.ids]
    /\ UNCHANGED <<verifications, auditVars, runVars, botVars,
                   ticketVars, svcVars>>

\* CashBagAssignment.create_batch(assignments)
AssignmentCreateBatch ==
    /\ Len(assignments) < MaxAssignments
    /\ \E batch \in Batches(MaxAssignments - Len(assignments)) :
       \E bag_ids \in [DOMAIN batch -> BagIds] :
       \E r \in {assignment_create_batch(assignments, bag_ids, batch)} :
       /\ assignments' = r.table
       /\ cash_ret' = [op |-> "create_batch",
                       outcome |-> IF r.raised THEN "raised" ELSE "ok",
                       error |-> IF r.raised THEN "integrity_error" ELSE "none",
                       arg |-> 0, ids |-> r.ids]
    /\ UNCHANGED <<verifications, auditVars, runVars, botVars,
                   ticketVars, svcVars>>

\* AuditService.verify_cash_bag(bag_id, counted_amount, counted_by)
VerifyCashBag ==
    /\ \E bag_id \in BagIds, counted_amount \in CountedAmounts :
       \E i \in get_by_bag_id(assignments, bag_id) :
       \E r \in {verification_create(assignments, verifications, bag_id,
                                     counted_amount, i)} :
       /\ r.raised \/ Len(verifications) < MaxVerifications
       /\ verifications' = r.table
       /\ cash_ret' = [op |-> "verify_cash_bag",
                       outcome |-> IF r.raised THEN "raised" ELSE "ok",
                       error |-> r.error, arg |-> bag_id,
                       ids |-> IF r.raised THEN <<>> ELSE <<Len(r.table)>>]
    /\ UNCHANGED <<assignments, auditVars, runVars, botVars,
                   ticketVars, svcVars>>

\* ----------------------------------------- batch inserts in a transaction

\* get_db_connection closes the connection in its finally clause.  pymysql
\* connects with autocommit off, so the rows the connection inserted and did
\* not commit are rolled back: the table is what was committed.
connection_close_autocommit(committed, pending) == pending

connection_close(committed, pending) == committed

\* The rows cursor.executemany reaches before row fail_at raises (0: no row
\* raises).
reached(records, fail_at) ==
    SubSeq(records, 1, IF fail_at = 0 THEN Len(records) ELSE fail_at - 1)

\* CardPaymentAudit.create_batch: executemany, conn.commit(), and the
\* connection's close on the way out of the with block.
card_create_batch(table, records, fail_at) ==
    LET pending == create_batch(table, reached(records, fail_at), 1)
    IN IF fail_at = 0
       THEN [raised |-> FALSE, table |-> connection_close(pending, pending)]
       ELSE [raised |-> TRUE, table |-> connection_close(table, pending)]

\* CashBagAssignment.create_batch up to conn.commit().
assignment_insert_batch(table, bag_ids, batch, fail_at) ==
    LET pending == insert_assignments(table, bag_ids,
                                      reached(batch, fail_at), 1)
    IN IF fail_at = 0
       THEN [raised |-> FALSE, table |-> pending]
       ELSE [raised |-> TRUE, table |-> connection_close(table, pending)]

CardRows == {[audit_date |-> d, paycloud_amount |-> 0, loyverse_amount |-> 0,
              aronium_amount |-> 0, pos_total |-> 0, variance |-> 0] :
                d \in {1, 2}}
CardBatches(n) == UNION {[1..k -> CardRows] : k \in 1..n}

NoBatchCall == [pc |-> "idle", table |-> "none", n |-> 0, first |-> 0,
                fail_at |-> 0, ids |-> <<>>]

\* A call of CardPaymentAudit.create_batch(audit_records).
CardCreateBatch ==
    /\ batch_call.pc # "reread"
    /\ Len(db) < MaxAudits
    /\ \E records \in CardBatches(MaxAudits - Len(db)) :
       \E fail_at \in 0..Len(records) :
       \E r \in {card_create_batch(db, records, fail_at)} :
       /\ db' = r.table
       /\ batch_call' = [pc |-> IF r.raised THEN "raised" ELSE "returned",
                         table |-> "card", n |-> Len(records),
                         first |-> Len(db) + 1, fail_at |-> fail_at,
                         ids |-> <<>>]
    /\ UNCHANGED <<apc, paycloud_payments, loyverse_payments, aronium_payments,
                   audit_records, audit_ret, fetch_failed, runVars, cashVars,
                   botVars, ticketVars, report, shifts>>

\* CashBagAssignment.create_batch(assignments) up to conn.commit(): a failed
\* insert leaves the with blocks with the exception, a committed one goes on
\* to the SELECT.
BatchInsert ==
    /\ batch_call.pc # "reread"
    /\ Len(assignments) < MaxAssignments
    /\ \E batch \in Batches(MaxAssignments - Len(assignments)) :
       \E bag_ids \in [DOMAIN batch -> BagIds], fail_at \in 0..Len(batch) :
       \E r \in {assignment_insert_batch(assignments, bag_ids, batch,
                                         fail_at)} :
       /\ assignments' = r.table
       /\ batch_call' = [pc |-> IF r.raised THEN "raised" ELSE "reread",
                         table |-> "cash", n |-> Len(batch),
                         first |-> Len(assignments) + 1, fail_at |-> fail_at,
                         ids |-> <<>>]
    /\ UNCHANGED <<verifications, cash_ret, auditVars, runVars, botVars,
                   ticketVars, report, shifts>>

\* SELECT * FROM cash_bag_assignments ORDER BY id DESC LIMIT len(assignments)
\* and the reversed rows the call returns.
BatchReread ==
    /\ batch_call.pc = "reread"
    /\ batch_call' = [batch_call EXCEPT
                         !.pc = "returned",
                         !.ids = last_ids(assignments, batch_call.n)]
    /\ UNCHANGED <<cashVars, auditVars, runVars, botVars, ticketVars,
                   report, shifts>>

\* ------------------------------------------- create_cash_bag_assignments

\* The methods class LoyverseService defines.
LoyverseServiceMethods ==
    {"get_items", "get_item", "get_receipts", "get_card_payments",
     "get_cash_payments", "clear_items", "reset_inventory",
     "update_inventory", "get_inventory", "create_item", "upload_item_image",
     "is_online_item", "get_online_item_ids", "update_item_order_counts",
     "add_loyverse_item_keys", "add_loyverse_group_keys",
     "process_item_with_inventory"}

\* self.loyverse_service.<name>: the attribute lookup raises AttributeError
\* for a name the class does not define.
has_method(name) == name \in LoyverseServiceMethods

IdChars == 8

\* s[:8], ids being sequences of characters.
first_chars(s) == SubSeq(s, 1, IF Len(s) < IdChars THEN Len(s) ELSE IdChars)

\* f"emp-{shift['employee_id'][:8]}_dev-{shift['pos_device_id'][:8]}"
source_id(shift) ==
    <<"emp-", first_chars(shift.employee_id),
      "_dev-", first_chars(shift.pos_device_id)>>

\* start_dt <= date_obj <= end_dt
in_window(date, start_date, end_date) == start_date <= date /\ date <= end_date

\* for date_str, aronium_data in aronium_dict.items(): one bag per day.
RECURSIVE aronium_bags(_, _, _, _)
aronium_bags(aronium_cash, start_date, end_date, i) ==
    IF i > Len(aronium_cash) THEN <<>>
    ELSE (IF in_window(aronium_cash[i].date, start_date, end_date)
          THEN <<[assignment_date |-> aronium_cash[i].date,
                  source_system |-> "aronium",
                  source_identifier |-> <<"daily-total">>,
                  expected_amount |-> aronium_cash[i].expected_cash]>>
          ELSE <<>>)
         \o aronium_bags(aronium_cash, start_date, end_date, i + 1)

\* for shift in loyverse_shifts: one bag per shift in the window.
RECURSIVE loyverse_bags(_, _, _, _)
loyverse_bags(loyverse_shifts, start_date, end_date, i) ==
    IF i > Len(loyverse_shifts) THEN <<>>
    ELSE (IF in_window(loyverse_shifts[i].date, start_date, end_date)
          THEN <<[assignment_date |-> loyverse_shifts[i].date,
                  source_system |-> "loyverse",
                  source_identifier |-> source_id(loyverse_shifts[i]),
                  expected_amount |-> loyverse_shifts[i].amount,
                  employee_id |-> loyverse_shifts[i].employee_id,
                  pos_device_id |-> loyverse_shifts[i].pos_device_id]>>
          ELSE <<>>)
         \o loyverse_bags(loyverse_shifts, start_date, end_date, i + 1)

\* The list `assignments` the method builds once it has both sources' data.
build_assignments(data, start_date, end_date) ==
    aronium_bags(data.aronium, start_date, end_date, 1)
        \o loyverse_bags(data.loyverse, start_date, end_date, 1)

\* AuditService.create_cash_bag_assignments with its dates resolved: the
\* Aronium query, get_receipts(), then the call of
\* loyverse_service.get_cash_payments_by_shift, then the two loops and
\* CashBagAssignment.create_batch.
create_cash_bag_assignments(table, data, start_date, end_date, bag_ids) ==
    IF ~has_method("get_cash_payments_by_shift")
    THEN [raised |-> TRUE, error |-> "attribute_error", table |-> table,
          ids |-> <<>>]
    ELSE LET batch == build_assignments(data, start_date, end_date)
         IN IF batch = <<>>
            THEN [raised |-> FALSE, error |-> "none", table |-> table,
                  ids |-> <<>>]
            ELSE [raised |-> FALSE, error |-> "none",
                  table |-> insert_assignments(table, bag_ids, batch, 1),
                  ids |-> last_ids(insert_assignments(table, bag_ids,
                                                      batch, 1), Len(batch))]

Employees == {<<1>>, <<2>>}
Devices == {<<1>>}
ShiftRows == [date : Dates, employee_id : Employees, pos_device_id : Devices,
              amount : {300}]
ShiftKey(s) == <<s.date, s.employee_id, s.pos_device_id>>

\* What the two sources hold: shift-level cash of the multi-till POS, one
\* entry per (date, employee, device), and the ledger's daily cash totals,
\* one per date, latest first.
ShiftWorlds ==
    [loyverse : {l \in UNION {[1..n -> ShiftRows] : n \in 0..MaxReceipts} :
                    \A i, j \in DOMAIN l :
                        ShiftKey(l[i]) = ShiftKey(l[j]) => i = j},
     aronium : {SortSeq(l, LAMBDA a, b : a.date > b.date) :
                  l \in {s \in UNION {[1..n -> [date : Dates,
                                               expected_cash : {500}]] :
                                          n \in 0..MaxDate} :
                            \A i, j \in DOMAIN s : i < j =>
                                s[i].date < s[j].date}}]

NoShifts == [loyverse |-> <<>>, aronium |-> <<>>]

\* A call of create_cash_bag_assignments(start_date, end_date); 0 is None,
\* which the method replaces by yesterday's date.
CreateCashBagAssignments(start_date, end_date) ==
    \E yesterday \in Dates :
    \E window \in {[start_date |-> IF start_date = 0 \/ end_date = 0
                                   THEN (IF start_date = 0 THEN yesterday
                                         ELSE start_date)
                                   ELSE start_date,
                    end_date |-> IF start_date = 0 \/ end_date = 0
                                 THEN (IF end_date = 0 THEN yesterday
                                       ELSE end_date)
                                 ELSE end_date]} :
    \E bag_ids \in [1..Len(build_assignments(shifts, window.start_date,
                                             window.end_date)) -> BagIds] :
    \E r \in {create_cash_bag_assignments(assignments, shifts,
                  window.start_date, window.end_date, bag_ids)} :
       /\ assignments' = r.table
       /\ cash_ret' = [op |-> "create_cash_bag_assignments",
                       outcome |-> IF r.raised THEN "raised" ELSE "ok",
                       error |-> r.error, arg |-> 0, ids |-> r.ids,
                       start_date |-> window.start_date,
                       end_date |-> window.end_date]
       /\ UNCHANGED <<verifications, auditVars, runVars, botVars, ticketVars,
                      svcVars>>

\* Source data that is read afresh, and may differ, at every fetch.
FreshWorld == [fixed |-> FALSE, gateway |-> <<>>, receipts |-> <<>>, ledger |-> {}]

RunIdle == world = FreshWorld /\ runs = 0 /\ dirty = FALSE

NoCashRet == [op |-> "none", outcome |-> "none", error |-> "none",
              arg |-> 0, ids |-> <<>>]

CashIdle == assignments = <<>> /\ verifications = <<>> /\ cash_ret = NoCashRet

NoReq == [op |-> "none", pc |-> "idle", ticket_id |-> 0,
          semantic_hash |-> "none", observed_at |-> 0, heartbeat_ids |-> {},
          row |-> "none", to_close |-> {}, read_at |-> 0]

TicketIdle == current = <<>> /\ history = <<>> /\ reqs = <<NoReq>>

SvcIdle ==
    /\ report = [called |-> FALSE]
    /\ shifts = NoShifts
    /\ batch_call = NoBatchCall

\* A QuicketBot that is constructed and never used.
BotIdle ==
    /\ driver = "none" /\ wait = FALSE /\ procs = 0
    /\ headers = <<>> /\ hidden = FALSE
    /\ pc = "idle" /\ max_retries = 0 /\ attempt = 0 /\ last_error = NoError
    /\ trace = <<>> /\ actions = <<>> /\ toggled = FALSE /\ hidden0 = FALSE
    /\ ret = NoRet
    /\ script = "none" /\ spc = "none"
    /\ stops = 0 /\ notified = 0 /\ exc = "none"

\* ============================================================ open tickets
\* Rows of open_tickets_current are [ticket_id, semantic_hash, status,
\* opened_at, last_modified_at, closed_at] (closed_at 0 = NULL), rows of
\* open_tickets_history [ticket_id, semantic_hash, event_type, observed_at].
\* receipt_json travels with semantic_hash and is left out.
TicketIds == 1..MaxTickets
Hashes == {"h1", "h2"}
Times == {1, 2}

RowsOf(cur, t) == {i \in DOMAIN cur : cur[i].ticket_id = t}

\* OpenTicket.get_open_ticket_ids
get_open_ticket_ids(cur) ==
    {cur[i].ticket_id : i \in {j \in DOMAIN cur : cur[j].status = "open"}}

\* upsert_open's SELECT ... fetchone(): the hashes it can return, "none"
\* for no row.
upsert_select(cur, t) ==
    IF RowsOf(cur, t) = {} THEN {"none"}
    ELSE {cur[i].semantic_hash : i \in RowsOf(cur, t)}

\* The schema of open_tickets_current is not part of the sources: an INSERT
\* for a ticket_id that has a row by now either raises (unique key) or adds
\* a second row.
DuplicateChoices(cur, t, row) ==
    IF row = "none" /\ RowsOf(cur, t) # {} THEN BOOLEAN ELSE {FALSE}

\* Variant: a changed ticket is updated without a history row.
upsert_open_silent_modify(cur, hist, row, t, h, at, dup_raises) ==
    LET ev(type) == [ticket_id |-> t, semantic_hash |-> h,
                     event_type |-> type, observed_at |-> at]
    IN IF row = "none"
       THEN IF dup_raises THEN [raised |-> TRUE, current |-> cur, history |-> hist]
            ELSE [raised |-> FALSE,
                  current |-> Append(cur,
                      [ticket_id |-> t, semantic_hash |-> h, status |-> "open",
                       opened_at |-> at, last_modified_at |-> at, closed_at |-> 0]),
                  history |-> Append(hist, ev("created"))]
       ELSE IF row # h
       THEN [raised |-> FALSE,
             current |-> [i \in DOMAIN cur |->
                 IF cur[i].ticket_id = t
                 THEN [cur[i] EXCEPT !.semantic_hash = h, !.last_modified_at = at]
                 ELSE cur[i]],
             history |-> hist]
       ELSE [raised |-> FALSE, current |-> cur, history |-> hist]

\* upsert_open after the SELECT returned `row`: INSERT, UPDATE or nothing,
\* then the history row and the commit.
upsert_open(cur, hist, row, t, h, at, dup_raises) ==
    LET ev(type) == [ticket_id |-> t, semantic_hash |-> h,
                     event_type |-> type, observed_at |-> at]
    IN IF row = "none"
       THEN IF dup_raises THEN [raised |-> TRUE, current |-> cur, history |-> hist]
            ELSE [raised |-> FALSE,
                  current |-> Append(cur,
                      [ticket_id |-> t, semantic_hash |-> h, status |-> "open",
                       opened_at |-> at, last_modified_at |-> at, closed_at |-> 0]),
                  history |-> Append(hist, ev("created"))]
       ELSE IF row # h
       THEN [raised |-> FALSE,
             current |-> [i \in DOMAIN cur |->
                 IF cur[i].ticket_id = t
                 THEN [cur[i] EXCEPT !.semantic_hash = h, !.last_modified_at = at]
                 ELSE cur[i]],
             history |-> Append(hist, ev("modified"))]
       ELSE [raised |-> FALSE, current |-> cur, history |-> hist]

\* The orders in which `for ticket_id in to_close` can visit a set.
RECURSIVE Orders(_)
Orders(S) ==
    IF S = {} THEN {<<>>}
    ELSE UNION {{<<x>> \o o : o \in Orders(S \ {x})} : x \in S}

\* INSERT INTO open_tickets_history ... SELECT ... WHERE ticket_id = t
RECURSIVE closed_events(_, _, _, _)
closed_events(cur, t, at, i) ==
    IF i > Len(cur) THEN <<>>
    ELSE (IF cur[i].ticket_id = t
          THEN <<[ticket_id |-> t, semantic_hash |-> cur[i].semantic_hash,
                  event_type |-> "closed", observed_at |-> at]>>
          ELSE <<>>) \o closed_events(cur, t, at, i + 1)

\* Variant: to_close is every open ticket, the heartbeat is ignored.
to_close_all(open_ids, heartbeat_ids) == open_ids

\* to_close = open_ids - heartbeat_ids
to_close(open_ids, heartbeat_ids) == open_ids \ heartbeat_ids

\* close_missing: the loop over to_close, then the commit.
RECURSIVE close_missing_loop(_, _, _, _, _)
close_missing_loop(cur, hist, order, at, i) ==
    IF i > Len(order) THEN [current |-> cur, history |-> hist]
    ELSE LET cur1 == [k \in DOMAIN cur |->
                         IF cur[k].ticket_id = order[i]
                         THEN [cur[k] EXCEPT !.status = "closed", !.closed_at = at]
                         ELSE cur[k]]
         IN close_missing_loop(cur1,
                hist \o closed_events(cur1, order[i], at, 1), order, at, i + 1)

\* upsert_open: the SELECT.
UpsertSelect(r, t, h, at) ==
    /\ r \in DOMAIN reqs /\ reqs[r].pc = "idle"
    /\ \E row \in upsert_select(current, t) :
          reqs' = [reqs EXCEPT ![r] =
                     [NoReq EXCEPT !.op = "upsert_open", !.pc = "write",
                                   !.ticket_id = t, !.semantic_hash = h,
                                   !.observed_at = at, !.row = row,
                                   !.read_at = Len(history)]]
    /\ UNCHANGED <<current, history, svcVars, cashVars, runVars, auditVars,
                   botVars>>

\* upsert_open: the writes and the commit, or the return of the no-op.
UpsertWrite(r) ==
    /\ r \in DOMAIN reqs /\ reqs[r].op = "upsert_open" /\ reqs[r].pc = "write"
    /\ \E d \in DuplicateChoices(current, reqs[r].ticket_id, reqs[r].row) :
       \E u \in {upsert_open(current, history, reqs[r].row, reqs[r].ticket_id,
                             reqs[r].semantic_hash, reqs[r].observed_at, d)} :
          /\ Len(u.history) <= MaxEvents
          /\ current' = u.current /\ history' = u.history
    /\ reqs' = [reqs EXCEPT ![r] = NoReq]
    /\ UNCHANGED <<svcVars, cashVars, runVars, auditVars, botVars>>

\* close_missing: get_open_ticket_ids on its own connection.
CloseRead(r, H, at) ==
    /\ r \in DOMAIN reqs /\ reqs[r].pc = "idle"
    /\ reqs' = [reqs EXCEPT ![r] =
                  [NoReq EXCEPT !.op = "close_missing", !.pc = "write",
                                !.heartbeat_ids = H, !.observed_at = at,
                                !.to_close =
                                    to_close(get_open_ticket_ids(current), H),
                                !.read_at = Len(history)]]
    /\ UNCHANGED <<current, history, svcVars, cashVars, runVars, auditVars,
                   botVars>>

\* close_missing: the return when to_close is empty, otherwise the second
\* connection, the loop and the commit.
CloseWrite(r) ==
    /\ r \in DOMAIN reqs /\ reqs[r].op = "close_missing" /\ reqs[r].pc = "write"
    /\ \E order \in Orders(reqs[r].to_close) :
       \E c \in {close_missing_loop(current, history, order,
                                    reqs[r].observed_at, 1)} :
          /\ Len(c.history) <= MaxEvents
          /\ current' = c.current /\ history' = c.history
    /\ reqs' = [reqs EXCEPT ![r] = NoReq]
    /\ UNCHANGED <<svcVars, cashVars, runVars, auditVars, botVars>>

\* ---------------------------------------------------------- specifications
HideSteps ==
    \/ \E f \in Faults(headers), c \in BOOLEAN : HideAttempt(f, c)
    \/ \E q \in QuitChoices(driver) :
          \E l \in LaunchChoices(DefaultStartRetries,
                                 ProcsAfterCleanup(driver, procs, q)) :
             HideRestart(q, l)
    \/ HideSleep
    \/ HideRaise

\* A client that starts the browser, calls hide_event any number of times
\* with any max_retries, and stops the browser, in any order.
Next ==
    \/ \E l \in LaunchChoices(DefaultStartRetries, procs) :
          StartBrowser(DefaultStartRetries, l)
    \/ \E q \in QuitChoices(driver) : StopBrowser(q)
    \/ \E a \in RetriesArgs : HideEventCall(a)
    \/ HideSteps

Init == BotInit /\ AuditIdle /\ RunIdle /\ CashIdle /\ TicketIdle /\ SvcIdle

Spec == Init /\ [][Next]_vars

\* A client calling start_browser, stop_browser and restart_browser of one
\* QuicketBot in any order, with any max_retries.
BrowserNext ==
    \/ \E R \in StartRetriesArgs : \E l \in LaunchChoices(R, procs) :
          StartBrowser(R, l)
    \/ \E q \in QuitChoices(driver) : StopBrowser(q)
    \/ \E q \in QuitChoices(driver) :
          \E l \in LaunchChoices(DefaultStartRetries,
                                 ProcsAfterCleanup(driver, procs, q)) :
             RestartBrowser(q, l)

SpecBrowser == Init /\ [][BrowserNext]_vars

\* The scripts hide_quicket_event and add_inventory, from the with statement on.
ScriptInit ==
    /\ driver = "none" /\ wait = FALSE /\ procs = 0
    /\ headers \in HeaderLists
    /\ hidden \in BOOLEAN
    /\ pc = "idle" /\ max_retries = 0 /\ attempt = 0 /\ last_error = NoError
    /\ trace = <<>> /\ actions = <<>> /\ toggled = FALSE /\ hidden0 = hidden
    /\ ret = NoRet
    /\ script \in Scripts /\ spc = "start"
    /\ stops = 0 /\ notified = 0 /\ exc = "none"
    /\ AuditIdle /\ RunIdle /\ CashIdle /\ TicketIdle /\ SvcIdle

ScriptNext ==
    \/ \E l \in LaunchChoices(DefaultStartRetries, procs) : ScriptEnter(l)
    \/ ScriptCallHide
    \/ HideSteps
    \/ \E q \in QuitChoices(driver) : ScriptExit(q)
    \/ ScriptHandler
    \/ ScriptAfterWith
    \/ \E ok \in BOOLEAN : ScriptProcess(ok)

SpecScripts == ScriptInit /\ [][ScriptNext]_vars

\* One reconciliation run against any content and any failure of the three
\* sources and of the database.
AuditInit == BotIdle /\ AuditIdle /\ RunIdle /\ CashIdle /\ TicketIdle /\ SvcIdle

AuditNext ==
    \/ FetchPaycloud
    \/ FetchLoyverse
    \/ FetchAronium
    \/ BuildRecords
    \/ SaveRecords
    \/ ReturnRecords

SpecAudit == AuditInit /\ [][AuditNext]_vars

\* Source data that stays the same while the audit is run again and again:
\* at most one transaction, one receipt and one ledger row.
Worlds ==
    [fixed : {TRUE},
     gateway : {g \in Gateways : Len(g) <= 1},
     receipts : {r \in ReceiptLists : Len(r) <= 1},
     ledger : {l \in Ledgers : Cardinality(l) <= 1}]

\* The caller has its answer (run_audit turns it into the response); a later
\* request calls create_card_payment_audit again, with fresh locals.
NextRun ==
    /\ apc = "done" /\ runs + 1 < MaxRuns
    /\ runs' = runs + 1
    /\ dirty' = (dirty \/ fetch_failed # {} \/ audit_ret.outcome = "raised")
    /\ apc' = "idle"
    /\ paycloud_payments' = {} /\ loyverse_payments' = {}
    /\ aronium_payments' = {} /\ audit_records' = <<>>
    /\ audit_ret' = NoAuditRet /\ fetch_failed' = {}
    /\ UNCHANGED <<db, world, cashVars, botVars,
                   ticketVars, svcVars>>

AuditRerunInit ==
    /\ BotIdle /\ AuditIdle /\ CashIdle /\ TicketIdle /\ SvcIdle
    /\ world \in Worlds /\ runs = 0 /\ dirty = FALSE

AuditRerunNext ==
    \/ FetchPaycloud
    \/ FetchLoyverse
    \/ FetchAronium
    \/ BuildRecords
    \/ SaveRecords
    \/ ReturnRecords
    \/ NextRun

SpecAuditRerun == AuditRerunInit /\ [][AuditRerunNext]_vars

\* Cash bag assignments created one by one and in batches, and bags verified,
\* in any order.
CashInit == BotIdle /\ AuditIdle /\ RunIdle /\ CashIdle /\ TicketIdle /\ SvcIdle

CashNext ==
    \/ AssignmentCreate
    \/ AssignmentCreateBatch
    \/ VerifyCashBag

SpecCashBag == CashInit /\ [][CashNext]_vars

\* The open-ticket routes: upsert_open and close_missing calls by the
\* workers that serve the requests.
TicketNext ==
    \/ \E r \in DOMAIN reqs, t \in TicketIds, h \in Hashes, at \in Times :
          UpsertSelect(r, t, h, at)
    \/ \E r \in DOMAIN reqs : UpsertWrite(r)
    \/ \E r \in DOMAIN reqs, H \in SUBSET TicketIds, at \in Times :
          CloseRead(r, H, at)
    \/ \E r \in DOMAIN reqs : CloseWrite(r)

\* One request at a time.
TicketInit ==
    BotIdle /\ AuditIdle /\ RunIdle /\ CashIdle /\ TicketIdle /\ SvcIdle

SpecTickets == TicketInit /\ [][TicketNext]_vars

\* Two workers of the web server serving requests at once.
TicketConcurrentInit ==
    /\ BotIdle /\ AuditIdle /\ RunIdle /\ CashIdle /\ SvcIdle
    /\ current = <<>> /\ history = <<>> /\ reqs = <<NoReq, NoReq>>

SpecTicketsConcurrent == TicketConcurrentInit /\ [][TicketNext]_vars

\* get_card_audit_report asked over any table, for any window.
ReportInit ==
    /\ BotIdle /\ RunIdle /\ CashIdle /\ TicketIdle /\ SvcIdle
    /\ apc = "idle"
    /\ paycloud_payments = {} /\ loyverse_payments = {} /\ aronium_payments = {}
    /\ audit_records = <<>> /\ db \in ReportTables
    /\ audit_ret = NoAuditRet /\ fetch_failed = {}

ReportNext ==
    \E start_date \in {1, 2}, end_date \in {1, MaxDate} :
        GetCardAuditReport(start_date, end_date)

SpecReport == ReportInit /\ [][ReportNext]_vars

\* Callers of the two create_batch methods: one caller whose call is followed
\* step by step, and other callers creating single assignments meanwhile.
BatchNext ==
    \/ CardCreateBatch
    \/ BatchInsert
    \/ BatchReread
    \/ AssignmentCreate

BatchInit ==
    BotIdle /\ AuditIdle /\ RunIdle /\ CashIdle /\ TicketIdle /\ SvcIdle

SpecBatch == BatchInit /\ [][BatchNext]_vars

\* create_cash_bag_assignments called for any window over any data of the
\* two sources.
ShiftsInit ==
    /\ BotIdle /\ AuditIdle /\ RunIdle /\ CashIdle /\ TicketIdle
    /\ report = [called |-> FALSE] /\ batch_call = NoBatchCall
    /\ shifts \in ShiftWorlds

ShiftsNext ==
    \E start_date \in 0..2, end_date \in {0, 1, MaxDate} :
        CreateCashBagAssignments(start_date, end_date)

SpecShifts == ShiftsInit /\ [][ShiftsNext]_vars

\* ------------------------------------------------------------- properties
HideDone == pc = "idle" /\ ret.op = "hide_event"
InHide == pc # "idle" \/ ret.op = "hide_event"
EventsOf(tr, e) == SelectSeq(tr, LAMBDA x : x.ev = e)
AllAttemptsFailed ==
    \A i \in 1..Len(trace) : trace[i].ev = "attempt" => ~trace[i].ok

\* C1: with max_retries = N >= 1 and every attempt failing, hide_event makes
\* exactly N attempts, calls restart_browser exactly N-1 times, once right
\* after each failed attempt except the last, and raises an error whose cause
\* is the failure of attempt N.
C1_RetryBudgetExhaustion ==
    (HideDone /\ max_retries >= 1 /\ AllAttemptsFailed) =>
        /\ Len(EventsOf(trace, "attempt")) = max_retries
        /\ Len(EventsOf(trace, "restart")) = max_retries - 1
        /\ \A k \in 1..(max_retries - 1) :
              \E i \in 1..(Len(trace) - 1) :
                 /\ trace[i] = [ev |-> "attempt", n |-> k, ok |-> FALSE]
                 /\ trace[i + 1].ev = "restart"
        /\ trace[Len(trace)] = [ev |-> "attempt", n |-> max_retries, ok |-> FALSE]
        /\ ret.outcome = "raised"
        /\ ret.error.attempt = max_retries
        /\ ret.error.kind # "none"

C1_Witness ==
    /\ HideDone /\ max_retries = 3 /\ ret.outcome = "raised"
    /\ Len(EventsOf(trace, "attempt")) = 3
    /\ Len(EventsOf(trace, "restart")) = 2
    /\ ret.error.attempt = 3

C3_ReturnIffAttemptSucceeds ==
    /\ \A i \in 1..Len(trace) :
          trace[i].ev = "attempt" =>
             /\ trace[i].n <= max_retries
             /\ (trace[i].ok => i = Len(trace) /\ HideDone /\ ret.outcome = "ok")
    /\ HideDone =>
          /\ ret.outcome \in {"ok", "raised"}
          /\ (ret.outcome = "ok") <=>
                (\E i \in 1..Len(trace) : trace[i].ev = "attempt" /\ trace[i].ok)
          /\ (ret.outcome = "raised") =>
                \A k \in 1..max_retries :
                   \E i \in 1..Len(trace) :
                      trace[i] = [ev |-> "attempt", n |-> k, ok |-> FALSE]

C3_Witness ==
    /\ HideDone /\ ret.outcome = "ok" /\ max_retries = 3
    /\ Len(EventsOf(trace, "attempt")) = 2
    /\ Len(EventsOf(trace, "sleep")) = 1

C5_StopAlwaysClears ==
    ret.op = "stop_browser" => (driver = "none" /\ ~wait)

\* C7: start_browser(R) makes at most R launch attempts, returns at the first
\* launch that succeeds, pauses 2 seconds after each failed launch that is
\* followed by another one, and raises the error of launch R once all R failed.
C7_StartBrowserRetries ==
    ret.op = "start_browser" =>
        LET R == ret.arg
            l == ret.launches
            n == ret.attempts
        IN /\ (R >= 0 => n <= R)
           /\ (R >= 1 =>
                 /\ ret.outcome \in {"ok", "raised"}
                 /\ (ret.outcome = "ok") <=> (\E i \in 1..R : l[i])
                 /\ (ret.outcome = "ok") =>
                       /\ l[n] /\ \A j \in 1..(n - 1) : ~l[j]
                       /\ ret.sleeps = [j \in 1..(n - 1) |-> 2]
                       /\ driver = "live" /\ wait
                 /\ (ret.outcome = "raised") =>
                       /\ n = R
                       /\ ret.error = [attempt |-> R, kind |-> "launch_failed"]
                       /\ ret.sleeps = [j \in 1..(R - 1) |-> 2])

C7_Witness ==
    /\ ret.op = "start_browser" /\ ret.arg = 3 /\ ret.outcome = "raised"
    /\ ret.attempts = 3 /\ ret.sleeps = <<2, 2>>

\* C6: when control leaves the with-block of a script in which hide_event was
\* called, by return or by exception, stop_browser has been run once; it is
\* not run before.
C6_StopOnEveryExit ==
    /\ (spc \in {"start", "entered", "body"}) => stops = 0
    /\ (ret.op = "hide_event"
          /\ spc \in {"after_with", "handler", "failed", "done"} \cup ProcessSteps)
         => stops = 1

C6_Witness ==
    /\ script = "add_inventory" /\ spc = "handler"
    /\ ret.op = "hide_event" /\ ret.outcome = "raised"
    /\ exc = "hide_failed" /\ stops = 1

\* ------------------------------------------------------ audit properties
DatesOf(payments) == {p.date : p \in payments}
AmountOf(payments, date) ==
    IF date \in DatesOf(payments)
    THEN (CHOOSE p \in payments : p.date = date).amount ELSE 0
RecordsBuilt == apc \in {"save", "return"} \/ (apc = "done" /\ audit_records # <<>>)

\* C8: every audit row built by create_card_payment_audit, and every row it
\* persists, has pos_total = loyverse_amount + aronium_amount and
\* variance = paycloud_amount - pos_total, whatever the three sources hold
\* for the date.
C8_AuditArithmetic ==
    /\ \A i \in DOMAIN audit_records :
          /\ audit_records[i].pos_total =
                audit_records[i].loyverse_amount + audit_records[i].aronium_amount
          /\ audit_records[i].variance =
                audit_records[i].paycloud_amount - audit_records[i].pos_total
    /\ \A i \in DOMAIN db :
          /\ db[i].row.pos_total =
                db[i].row.loyverse_amount + db[i].row.aronium_amount
          /\ db[i].row.variance =
                db[i].row.paycloud_amount - db[i].row.pos_total

\* The spec's example (terminal 100, loyverse 40, aronium 30 gives 70 and 30)
\* next to a row of a date that only the terminal reports.
C8_Witness ==
    /\ \E i \in DOMAIN db :
          /\ db[i].row.paycloud_amount = 100 /\ db[i].row.loyverse_amount = 40
          /\ db[i].row.aronium_amount = 30
          /\ db[i].row.pos_total = 70 /\ db[i].row.variance = 30
    /\ \E i \in DOMAIN db :
          /\ db[i].row.paycloud_amount = 100 /\ db[i].row.loyverse_amount = 0
          /\ db[i].row.aronium_amount = 0
          /\ db[i].row.pos_total = 0 /\ db[i].row.variance = 100

\* C9: the rows built are exactly one per date of the union of the dates the
\* three sources reported, in ascending date order, and each amount is the
\* source's amount for the date, or 0 when the source lacks the date.
C9_UnionOfDates ==
    RecordsBuilt =>
       /\ {audit_records[i].audit_date : i \in DOMAIN audit_records}
             = DatesOf(paycloud_payments) \cup DatesOf(loyverse_payments)
                  \cup DatesOf(aronium_payments)
       /\ \A i, j \in DOMAIN audit_records :
             i < j => audit_records[i].audit_date < audit_records[j].audit_date
       /\ \A i \in DOMAIN audit_records :
             LET r == audit_records[i] IN
             /\ r.paycloud_amount = AmountOf(paycloud_payments, r.audit_date)
             /\ r.loyverse_amount = AmountOf(loyverse_payments, r.audit_date)
             /\ r.aronium_amount = AmountOf(aronium_payments, r.audit_date)

\* Sources {1,2}, {2,3} and {} give the rows of 1, 2, 3 in that order.
C9_Witness ==
    /\ RecordsBuilt
    /\ DatesOf(paycloud_payments) = {1, 2}
    /\ DatesOf(loyverse_payments) = {2, 3}
    /\ DatesOf(aronium_payments) = {}
    /\ Len(audit_records) = 3
    /\ audit_records[1].audit_date = 1 /\ audit_records[1].loyverse_amount = 0
    /\ audit_records[2].audit_date = 2
    /\ audit_records[3].audit_date = 3 /\ audit_records[3].paycloud_amount = 0

\* C10: when the fetch from any of the three sources fails, the run stops
\* there with the failure raised to the caller and no audit row persisted.
C10_FetchFailureAborts ==
    fetch_failed # {} =>
       /\ apc = "done"
       /\ audit_ret.outcome = "raised"
       /\ db = <<>>

\* ------------------------------------------ repeated runs of the audit
RangeGiven(range) == range.start_date # 0 /\ range.end_date # 0
Returned == apc = "done" /\ audit_ret.outcome = "returned"
ReturnedRows == {audit_ret.records[i] : i \in DOMAIN audit_ret.records}
\* The rows the current run inserted (it has passed the save step).
OwnRows == {db[i] : i \in (Len(db) - Len(audit_records) + 1)..Len(db)}
RowsBetween(start_date, end_date) ==
    {db[i] : i \in {j \in DOMAIN db : /\ start_date <= db[j].row.audit_date
                                      /\ db[j].row.audit_date <= end_date}}

\* C11: a run called without a date range returns exactly the rows it has
\* just inserted, also after earlier runs; a run called with start and end
\* date returns all rows of the table in that range.
C11_ReturnsRowsJustCreated ==
    Returned =>
       /\ Cardinality(ReturnedRows) = Len(audit_ret.records)
       /\ IF RangeGiven(audit_ret.range)
          THEN ReturnedRows = RowsBetween(audit_ret.range.start_date,
                                          audit_ret.range.end_date)
          ELSE ReturnedRows = OwnRows

RowsOfDate(date) == {i \in DOMAIN db : db[i].row.audit_date = date}
\* No fetch and no database call has failed in this run or an earlier one,
\* and this run has inserted its rows.
CleanRunsSaved ==
    /\ ~dirty /\ fetch_failed = {}
    /\ apc = "return" \/ Returned

\* C19: audit rows are only ever appended, never changed or removed, and
\* nothing removes duplicates: after n runs over the same source data the
\* table holds n rows for every audited date.
C19_AppendOnlyNoDedup ==
    /\ [](CleanRunsSaved =>
            /\ Len(db) = (runs + 1) * Len(audit_records)
            /\ \A i \in DOMAIN audit_records :
                  Cardinality(RowsOfDate(audit_records[i].audit_date)) = runs + 1)
    /\ [][/\ Len(db') >= Len(db)
          /\ \A i \in DOMAIN db : db'[i] = db[i]]_vars

\* Second clean run over a world with a payment: two rows for its date.
C19_Witness ==
    /\ CleanRunsSaved /\ Returned /\ runs = 1
    /\ Len(audit_records) >= 1 /\ Len(db) = 2 * Len(audit_records)
    /\ Cardinality(RowsOfDate(audit_records[1].audit_date)) = 2

\* -------------------------------------------------- cash bag properties
HasAssignment(bag_id) == \E i \in DOMAIN assignments : assignments[i].bag_id = bag_id
VerifyCalled == cash_ret' # cash_ret /\ cash_ret'.op = "verify_cash_bag"

\* C12: every verification row carries variance = counted_amount minus the
\* expected_amount of an assignment of its bag, and once a verification or an
\* assignment is stored no later operation changes it.
C12_VarianceAtCreation ==
    /\ [](\A v \in DOMAIN verifications :
            \E i \in DOMAIN assignments :
               /\ assignments[i].bag_id = verifications[v].bag_id
               /\ verifications[v].variance =
                     verifications[v].counted_amount
                        - assignments[i].expected_amount)
    /\ [][/\ \A v \in DOMAIN verifications : verifications'[v] = verifications[v]
          /\ \A i \in DOMAIN assignments : assignments'[i] = assignments[i]]_vars

\* Expected 500, counted 480: variance -20.
C12_Witness ==
    \E v \in DOMAIN verifications : \E i \in DOMAIN assignments :
       /\ assignments[i].bag_id = verifications[v].bag_id
       /\ assignments[i].expected_amount = 500
       /\ verifications[v].counted_amount = 480
       /\ verifications[v].variance = -20

\* C13: verify_cash_bag with a bag_id that has no assignment raises the
\* not-found error and leaves both tables as they were.
C13_UnknownBagRejected ==
    [][(VerifyCalled /\ ~HasAssignment(cash_ret'.arg)) =>
          /\ cash_ret'.outcome = "raised" /\ cash_ret'.error = "not_found"
          /\ verifications' = verifications
          /\ assignments' = assignments]_vars

\* A bag other than the assigned one was presented and rejected.
C13_Witness ==
    /\ cash_ret.op = "verify_cash_bag" /\ cash_ret.error = "not_found"
    /\ ~HasAssignment(cash_ret.arg)
    /\ assignments # <<>>

\* C14: no two persisted assignments carry the same bag_id.
C14_BagIdsNeverReused ==
    \A i, j \in DOMAIN assignments :
       i # j => assignments[i].bag_id # assignments[j].bag_id

\* C20: every bag has at most one verification row.
C20_AtMostOneVerification ==
    \A v, w \in DOMAIN verifications :
       v # w => verifications[v].bag_id # verifications[w].bag_id

\* ------------------------------------------- one attempt's UI actions
\* A step that runs one attempt of hide_event.
AttemptStep == pc = "attempt" /\ Len(trace') = Len(trace) + 1
Has(acts, a) == \E i \in 1..Len(acts) : acts[i] = a
HideClicked(acts) == Has(acts, Act("click", "hide", 0))
SaveClicked(acts) == Has(acts, Act("click", "save", 0))
HeaderClicks(acts) ==
    SelectSeq(acts, LAMBDA a : a[1] = "click" /\ a[2] = "header")
LastOk(tr) == Len(tr) > 0 /\ tr[Len(tr)].ev = "attempt" /\ tr[Len(tr)].ok
\* The matched row is reached: the last header expanded holds the target
\* date and its content was read.
RowReached(acts, hs, kind) ==
    /\ Len(HeaderClicks(acts)) > 0
    /\ hs[HeaderClicks(acts)[Len(HeaderClicks(acts))][3]]
    /\ kind \notin {"header_missing_id", "timeout", "value_error"}
\* What an attempt does at a row that already shows the unhide control, and
\* what it does once the hide control has been clicked.
UnhideShownCase ==
    (AttemptStep /\ hidden) =>
        /\ ~HideClicked(actions') /\ ~SaveClicked(actions')
        /\ hidden'
        /\ (/\ RowReached(actions', headers, last_error'.kind)
            /\ ~LastOk(trace'))
              => last_error'.kind = "icon_not_found"
HideClickedCase ==
    (AttemptStep /\ HideClicked(actions')) =>
        /\ ~hidden
        /\ LastOk(trace') => (SaveClicked(actions') /\ hidden')
        /\ ~LastOk(trace') =>
              /\ last_error' = [attempt |-> attempt, kind |-> "save_failed"]

AfterAttempt == Len(trace) > 0 /\ trace[Len(trace)].ev = "attempt"
Expanded == HeaderClicks(actions)
NoneMatches(hs) == \A j \in 1..Len(hs) : ~hs[j]
ContentFailures == {"header_missing_id", "timeout", "value_error"}

\* C16: one attempt expands the accordion headers in document order and
\* stops at the first header whose content holds a row of the target date:
\* no later header is expanded and at most one row is toggled; when every
\* header has been expanded and read without a match the attempt fails with
\* the date-not-found error.
C16_FirstMatchInDocumentOrder ==
    AfterAttempt =>
        /\ Len(Expanded) <= Len(headers)
        /\ \A j \in 1..Len(Expanded) : Expanded[j] = Act("click", "header", j)
        /\ \A j \in 1..(Len(Expanded) - 1) : ~headers[j]
        /\ Len(SelectSeq(actions, LAMBDA a : a = Act("click", "hide", 0))) <= 1
        /\ HideClicked(actions) =>
              /\ Len(Expanded) > 0 /\ headers[Len(Expanded)]
              /\ \E i \in 2..Len(actions) :
                    /\ actions[i] = Act("click", "hide", 0)
                    /\ actions[i - 1] = Act("click", "header", Len(Expanded))
        /\ LastOk(trace) => (Len(Expanded) > 0 /\ headers[Len(Expanded)])
        /\ (~LastOk(trace) /\ last_error.kind = "date_not_found") =>
              /\ Len(Expanded) = Len(headers)
              /\ NoneMatches(headers)
        /\ (/\ Len(headers) > 0 /\ Len(Expanded) = Len(headers)
            /\ NoneMatches(headers))
              => /\ ~LastOk(trace)
                 /\ last_error.kind \in {"date_not_found"} \cup ContentFailures

C16_Witness ==
    /\ AfterAttempt /\ LastOk(trace)
    /\ Len(headers) = 2 /\ ~headers[1] /\ headers[2]
    /\ Len(Expanded) = 2 /\ HideClicked(actions)

C16_WitnessNotFound ==
    /\ AfterAttempt /\ ~LastOk(trace)
    /\ Len(headers) = 2 /\ NoneMatches(headers) /\ Len(Expanded) = 2
    /\ last_error.kind = "date_not_found"

\* C17: when restart_browser raises after failed attempt k < max_retries,
\* hide_event goes on: it sleeps 2*k seconds, makes attempt k+1, and that
\* attempt fails with the not-started error and counts against the retry
\* budget like any other failed attempt.  (restart_browser has raised
\* exactly when it leaves the controller without a driver.)
C17_RestartFailureDoesNotAbort ==
    [][/\ (pc = "restart" /\ driver' = "none") =>
             /\ attempt < max_retries
             /\ pc' = "sleep" /\ attempt' = attempt
             /\ ret' = NoRet /\ last_error' = last_error
       /\ (pc = "sleep" /\ driver = "none") =>
             /\ trace' = Append(trace, [ev |-> "sleep", n |-> 2 * attempt,
                                        ok |-> TRUE])
             /\ pc' = "attempt" /\ attempt' = attempt + 1
             /\ attempt' <= max_retries
             /\ driver' = "none" /\ ret' = NoRet
       /\ (pc = "attempt" /\ driver = "none") =>
             /\ trace' = Append(trace, [ev |-> "attempt", n |-> attempt,
                                        ok |-> FALSE])
             /\ last_error' = [attempt |-> attempt, kind |-> "not_started"]
             /\ Len(actions') = 0
             /\ pc' = IF attempt < max_retries THEN "restart" ELSE "exhausted"
       /\ (pc = "exhausted" /\ driver = "none") =>
             /\ HideDone' /\ ret'.outcome = "raised"
             /\ ret'.error = last_error]_vars

C17_Witness ==
    /\ pc = "restart" /\ max_retries = 3 /\ driver = "none"
    /\ Len(trace) = 4
    /\ trace[1] = [ev |-> "attempt", n |-> 1, ok |-> FALSE]
    /\ trace[2].ev = "restart"
    /\ trace[3] = [ev |-> "sleep", n |-> 2, ok |-> TRUE]
    /\ trace[4] = [ev |-> "attempt", n |-> 2, ok |-> FALSE]
    /\ last_error = [attempt |-> 2, kind |-> "not_started"]

\* C18: over any sequence of start_browser, stop_browser and restart_browser
\* calls on one controller, at most one browser process launched by it is
\* alive at any time.
C18_AtMostOneProcess == procs <= 1

\* C24: whenever start_browser returns normally the controller holds a
\* browser session (driver and wait handle set), whatever max_retries was,
\* 0 and negative values included.
C24_ReturnMeansSession ==
    (ret.op = "start_browser" /\ ret.outcome = "ok") =>
        (driver = "live" /\ wait)

\* ------------------------------------------------ the scripts' handlers
HideFailed == ret.op = "hide_event" /\ ret.outcome = "raised"
Processing == script = "add_inventory" /\ spc \in ProcessSteps \cup {"done"}

\* After a hide_event that failed: one hide-failure notification is sent;
\* add_inventory goes on to the guest-list fetch, the gazebo update and the
\* item creation, in this order, after stop_browser has been called once;
\* hide_quicket_event exits with a non-zero status.
C30_NotifiedOnceAndContinues ==
    [][/\ (HideFailed /\ spc = "body") =>
             (spc' = "handler" /\ stops' = 1 /\ notified' = 0)
       /\ (HideFailed /\ spc = "handler") =>
             /\ notified' = 1
             /\ spc' = IF script = "add_inventory" THEN "guest_list"
                       ELSE "failed"
             /\ script = "hide_quicket_event" =>
                   exit_status(spc' = "failed") # 0
       /\ (HideFailed /\ spc \notin {"body", "handler"}) =>
             /\ notified' = notified /\ stops' = stops
             /\ (spc = "guest_list" /\ spc' # "failed") => spc' = "gazebo"
             /\ (spc = "gazebo" /\ spc' # "failed") => spc' = "items"
             /\ (spc = "items" /\ spc' # "failed") => spc' = "done"
             /\ spc = "failed" => spc' = "failed"]_vars

\* The browser session is gone once the processing steps run.
SessionStoppedBeforeProcessing ==
    (HideFailed /\ Processing) =>
        (stops = 1 /\ driver = "none" /\ ~wait /\ procs = 0)

\* C30: in add_inventory a hide_event that failed after all retries does not
\* stop the run: exactly one hide-failure notification is sent, the
\* guest-list fetch, the gazebo inventory update and the item creation still
\* run afterwards, and the browser session has been stopped before they
\* start; in hide_quicket_event the same failure sends exactly one
\* notification and the process exits with a non-zero status.
C30_HideFailureHandled ==
    /\ C30_NotifiedOnceAndContinues
    /\ []SessionStoppedBeforeProcessing

\* ------------------------------------------------ open ticket properties
UpsertDone(r) ==
    reqs[r].op = "upsert_open" /\ reqs[r].pc = "write" /\ reqs'[r].pc = "idle"
CloseDone(r) ==
    reqs[r].op = "close_missing" /\ reqs[r].pc = "write" /\ reqs'[r].pc = "idle"
RowSet(cur, t) == {cur[i] : i \in RowsOf(cur, t)}
\* The history rows of ticket t that a step adds.
NewEvents(t) ==
    SelectSeq(SubSeq(history', Len(history) + 1, Len(history')),
              LAMBDA e : e.ticket_id = t)
HistoryGrows ==
    /\ Len(history') >= Len(history)
    /\ SubSeq(history', 1, Len(history)) = history

\* C25: after upsert_open(t, ...) completes, ticket t has status 'open' in
\* open_tickets_current, whatever happened to t before, also when t was
\* closed by close_missing and is reported again.
C25_UpsertLeavesOpen ==
    [][\A r \in DOMAIN reqs :
          UpsertDone(r) =>
             /\ RowsOf(current', reqs[r].ticket_id) # {}
             /\ \A i \in RowsOf(current', reqs[r].ticket_id) :
                   current'[i].status = "open"]_vars

\* C26: every change to a ticket's row in open_tickets_current comes with
\* exactly one open_tickets_history row of the matching event type, a row
\* that does not change gets none, and upsert_open with the stored hash
\* changes neither table; after any upsert_open the stored hash is the one
\* passed, so the same call repeated is a no-op.
C26_OneEventPerChange ==
    [][/\ HistoryGrows
       /\ \A t \in TicketIds :
             IF RowSet(current', t) = RowSet(current, t)
             THEN Len(NewEvents(t)) = 0
             ELSE /\ Len(NewEvents(t)) = 1
                  /\ NewEvents(t)[1].event_type =
                        IF RowSet(current, t) = {} THEN "created"
                        ELSE IF \E x \in RowSet(current', t) :
                                   x.status = "closed"
                                   /\ \A y \in RowSet(current, t) : y.status = "open"
                        THEN "closed"
                        ELSE "modified"
                  /\ \A x \in RowSet(current', t) :
                        NewEvents(t)[1].semantic_hash = x.semantic_hash
       /\ \A r \in DOMAIN reqs :
             UpsertDone(r) =>
                /\ (\E x \in RowSet(current, reqs[r].ticket_id) :
                       x.semantic_hash = reqs[r].semantic_hash)
                     => (current' = current /\ history' = history)
                /\ \A x \in RowSet(current', reqs[r].ticket_id) :
                      x.semantic_hash = reqs[r].semantic_hash]_vars

C26_Witness ==
    /\ Len(current) = 1 /\ current[1].status = "closed"
    /\ current[1].semantic_hash = "h2"
    /\ Len(history) = 3
    /\ history[1].event_type = "created" /\ history[2].event_type = "modified"
    /\ history[3].event_type = "closed"
    /\ reqs[1].pc = "idle"

\* C27: when close_missing(H, t) completes, every ticket that was open and
\* is not in H is closed with closed_at = t and has one new 'closed' history
\* row; every ticket in H and every ticket already closed is unchanged and
\* gets no history row.
C27_CloseMissingFrame ==
    [][\A r \in DOMAIN reqs :
          CloseDone(r) =>
             /\ HistoryGrows
             /\ Len(current') = Len(current)
             /\ \A i \in DOMAIN current :
                   IF /\ current[i].status = "open"
                      /\ current[i].ticket_id \notin reqs[r].heartbeat_ids
                   THEN /\ current'[i] =
                              [current[i] EXCEPT !.status = "closed",
                                       !.closed_at = reqs[r].observed_at]
                        /\ NewEvents(current[i].ticket_id) =
                              <<[ticket_id |-> current[i].ticket_id,
                                 semantic_hash |-> current[i].semantic_hash,
                                 event_type |-> "closed",
                                 observed_at |-> reqs[r].observed_at]>>
                   ELSE /\ current'[i] = current[i]
                        /\ Len(NewEvents(current[i].ticket_id)) = 0]_vars

C27_Witness ==
    /\ Len(current) = 2 /\ reqs[1].pc = "idle"
    /\ current[1].status = "closed" /\ current[1].closed_at = 2
    /\ current[1].opened_at = 1
    /\ current[2].status = "open"
    /\ Len(history) = 3 /\ history[3].event_type = "closed"
    /\ history[3].ticket_id = current[1].ticket_id

\* C28: under concurrent requests, two interleaved upsert_open calls for a
\* ticket not seen before leave at most one row of it in
\* open_tickets_current and at most one 'created' event, and a
\* close_missing never closes a ticket on the basis of an open-id set it
\* read before an upsert_open of that ticket was committed.
C28_ConcurrentRequestsSafe ==
    /\ [](\A t \in TicketIds :
             /\ Cardinality(RowsOf(current, t)) <= 1
             /\ Len(SelectSeq(history, LAMBDA e :
                       e.ticket_id = t /\ e.event_type = "created")) <= 1)
    /\ [][\A r \in DOMAIN reqs :
             CloseDone(r) =>
                \A t \in reqs[r].to_close :
                   \A k \in (reqs[r].read_at + 1)..Len(history) :
                      history[k].ticket_id # t]_vars

\* The second half of C28 on its own: no close on a stale read.
C28_NoCloseOnStaleRead ==
    [][\A r \in DOMAIN reqs :
          CloseDone(r) =>
             \A t \in reqs[r].to_close :
                \A k \in (reqs[r].read_at + 1)..Len(history) :
                   history[k].ticket_id # t]_vars

\* ------------------------------------------------------ report properties
ReportRows ==
    SelectSeq(db, LAMBDA r : report.start_date <= r.row.audit_date
                             /\ r.row.audit_date <= report.end_date)

\* The summary of a report over at least one record.
C23_SummaryOfMatchingRecords ==
    (report.called /\ ReportRows # <<>>) =>
        LET s == report.result.summary
            Abs(v) == IF v < 0 THEN 0 - v ELSE v
            V == {Abs(ReportRows[i].row.variance) : i \in DOMAIN ReportRows}
        IN /\ DOMAIN s = {"total_days", "days_with_variance", "total_variance",
                          "largest_variance", "average_variance"}
           /\ s.total_days = Len(ReportRows)
           /\ s.days_with_variance =
                 Cardinality({i \in DOMAIN ReportRows :
                                 Abs(ReportRows[i].row.variance) > 1})
           /\ s.total_variance >= s.largest_variance
           /\ s.largest_variance \in V /\ \A v \in V : v <= s.largest_variance
           /\ s.average_variance = [sum |-> s.total_variance,
                                    count |-> s.total_days]
           /\ s.days_with_variance <= s.total_days

\* C23: for every record set that matches the query of
\* get_card_audit_report, the empty one included, the summary holds the
\* count, the number of records with a variance above one cent, the sum,
\* the maximum and the average of the absolute variances, with
\* with-variance count <= count and maximum <= sum.
C23_SummaryComplete ==
    /\ C23_SummaryOfMatchingRecords
    /\ report.called =>
          LET s == report.result.summary
          IN /\ {"total_days", "days_with_variance", "total_variance",
                 "largest_variance", "average_variance"} \subseteq DOMAIN s
             /\ s.days_with_variance <= s.total_days
             /\ s.largest_variance <= s.total_variance


\* ------------------------------------------------------- batch properties

\* The step in which a create_batch call fails.
BatchFails == batch_call'.pc = "raised" /\ batch_call' # batch_call

\* C22: a batch insert of audit records or of cash bag assignments is all or
\* nothing: when the insert fails at a row, neither table gains a row, the
\* call ends with the exception (it returns nothing), and a call ends with
\* the exception exactly when a row failed.
C22_BatchAllOrNothing ==
    [][/\ BatchFails => /\ db' = db
                        /\ assignments' = assignments
                        /\ batch_call'.ids = <<>>
       /\ (batch_call'.fail_at # 0) = (batch_call'.pc = "raised")]_vars

\* A batch of two rows failed at its second row, for either table.
C22_Witness ==
    /\ batch_call.pc = "raised" /\ batch_call.n = 2 /\ batch_call.fail_at = 2
    /\ batch_call.table = "cash"
    /\ Len(assignments) = batch_call.first - 1


\* The ids of the rows the followed create_batch call inserted, in the order
\* of its input.
InsertedIds == [k \in 1..batch_call.n |-> batch_call.first + k - 1]

\* C29: CashBagAssignment.create_batch returns exactly the assignments the
\* call inserted, one per input and in input order, whatever other callers
\* commit between its insert and its re-read.
C29_ReturnsOwnRows ==
    (batch_call.pc = "returned" /\ batch_call.table = "cash")
        => batch_call.ids = InsertedIds


\* -------------------------------------------- cash bag assignment creation

\* The rows of cash_bag_assignments the latest call returned.
ReturnedAssignments == {assignments[cash_ret.ids[k]] : k \in DOMAIN cash_ret.ids}

\* C21: create_cash_bag_assignments creates, for each (employee, device)
\* shift the multi-till POS reports with a date inside the window, exactly
\* one assignment whose source_identifier is emp-<first 8 characters of the
\* employee id>_dev-<first 8 characters of the device id>, and returns the
\* created assignments.
C21_OneAssignmentPerShift ==
    cash_ret.op = "create_cash_bag_assignments" =>
        /\ cash_ret.outcome = "ok"
        /\ \A i \in DOMAIN shifts.loyverse :
              in_window(shifts.loyverse[i].date, cash_ret.start_date,
                        cash_ret.end_date) =>
                 Cardinality({row \in ReturnedAssignments :
                     /\ row.source_system = "loyverse"
                     /\ row.assignment_date = shifts.loyverse[i].date
                     /\ row.source_identifier = source_id(shifts.loyverse[i])
                     /\ row.expected_amount = shifts.loyverse[i].amount}) = 1

====
